---- MODULE Spec2Model ----
(***************************************************************************)
(* cleave: the hotkey grammar and matching engine of the trigger daemon    *)
(* (cleave-daemon/src/hotkey.rs), the daemon's event loop                  *)
(* (cleave-daemon/src/main.rs) and the interactive selection state machine *)
(* (src/app/state.rs, src/app/mod.rs).                                     *)
(*                                                                         *)
(* A Rust String is a TLA+ string (a sequence of characters); a character  *)
(* is a string of length one.  Option<T> is a sequence of length 0 or 1.   *)
(***************************************************************************)
EXTENDS Integers, Sequences, FiniteSets, TLC

VARIABLES
  target_os,      \* cfg(target_os): "macos" or "other"
  arg,            \* the arguments of the hotkey call under analysis
  parsed,         \* Option<Result<HotKey, HotKeyParseError>>: parse_hotkey(arg.text) or HotKey::new
  parsedVariant,  \* Option<Result<..>>: parse_hotkey(arg.variant)
  shown,          \* Option<String>: into_string of the parsed hotkey
  reparsed,       \* Option<Result<..>>: parse_hotkey(shown)
  probe,          \* the (modifiers, key) pair handed to HotKey::matches
  matched,        \* Option<bool>: the result of HotKey::matches
  hpc,            \* position in the hotkey call sequence
  args,           \* the daemon's Args: [hotkey, persist]
  held,           \* the keys physically down, as the device handler samples them
  rx,             \* the mpsc channel of KeyAction edges, oldest first
  main_pressed,   \* main's local `pressed`
  main_mods,      \* main's local `mods`
  handoffs,       \* the number of run_cleave invocations
  status,         \* the result of the last run_cleave
  cleave_status,  \* history: what Command::status() returned in the last run_cleave
  seen,           \* history: the edges consumed since the start or the last clear
  sent,           \* the number of edges the callbacks have sent
  dpc,            \* the daemon: "off", "loop", "done" (Ok) or "failed" (Err)
  state,          \* App.state: the CleaveState of the interactive session
  spc,            \* the interactive session: "off" or "running"
  input,          \* history: the last window event delivered, or the last direct call
  initial,        \* history: the selection a directly driven CleaveState started with
  daemon,         \* the in-process Daemon: [pressed, hotkey, listening]
  keys_down,      \* the keys physically down, as the in-process Daemon's handler samples them
  gp,             \* the get_pressed call in progress: its position, val and what is_pressed read
  returned,       \* history: the value the last finished get_pressed returned
  trues,          \* history: the number of true returns since the last start_listening
  tick,           \* the position of window_event in the channel-fed daemon of src/app.rs
  sends,          \* the number of KeyAction edges the callbacks of src/app.rs have sent
  app,            \* the App of src/app/mod.rs: [pc, args, current_image]
  export,         \* history: the last crop and export: what it was given and what it produced
  session         \* the window side of the App: [context, visible, control_flow, receiver, ...]

hvars == <<target_os, arg, parsed, parsedVariant, shown, reparsed, probe, matched, hpc>>

dvars ==
  <<args, held, rx, main_pressed, main_mods, handoffs, status, cleave_status, seen, sent, dpc>>

svars == <<state, spc, input, initial>>

ivars == <<daemon, keys_down, gp, returned, trues, tick, sends>>

evars == <<app, export, session>>

vars == <<hvars, dvars, svars, ivars, evars>>

None == <<>>
Some(x) == <<x>>

(***************************************************************************)
(* Bounds of the model.                                                    *)
(***************************************************************************)
\* the largest number of '+'-separated tokens of a hotkey string
MaxTokens == 3

\* the largest number of key edges the device callbacks send
MaxEdges == 6

\* the largest x coordinate of the pointer
MaxCoord == 1

\* the width and the height of the captured frame, in pixels
MaxFrame == 32

(***************************************************************************)
(* str::to_uppercase, str::to_lowercase, str::trim, str::split('+') on     *)
(* ASCII text.                                                             *)
(***************************************************************************)
LowerLetters == "abcdefghijklmnopqrstuvwxyz"
UpperLetters == "ABCDEFGHIJKLMNOPQRSTUVWXYZ"
Whitespace == {" ", "\t"}

CharAt(s, i) == SubSeq(s, i, i)

IndexIn(c, s) == CHOOSE i \in 1..Len(s) : CharAt(s, i) = c

\* char::to_uppercase and char::to_lowercase on ASCII letters
UpperOf ==
  [c \in {CharAt(LowerLetters, i) : i \in 1..Len(LowerLetters)} |->
     CharAt(UpperLetters, IndexIn(c, LowerLetters))]

LowerOf ==
  [c \in {CharAt(UpperLetters, i) : i \in 1..Len(UpperLetters)} |->
     CharAt(LowerLetters, IndexIn(c, UpperLetters))]

char_to_uppercase(c) == IF c \in DOMAIN UpperOf THEN UpperOf[c] ELSE c

char_to_lowercase(c) == IF c \in DOMAIN LowerOf THEN LowerOf[c] ELSE c

RECURSIVE to_uppercase(_)
to_uppercase(s) ==
  IF s = "" THEN "" ELSE char_to_uppercase(Head(s)) \o to_uppercase(Tail(s))

RECURSIVE to_lowercase(_)
to_lowercase(s) ==
  IF s = "" THEN "" ELSE char_to_lowercase(Head(s)) \o to_lowercase(Tail(s))

RECURSIVE trim_start(_)
trim_start(s) ==
  IF s # "" /\ Head(s) \in Whitespace THEN trim_start(Tail(s)) ELSE s

RECURSIVE trim_end(_)
trim_end(s) ==
  IF s # "" /\ CharAt(s, Len(s)) \in Whitespace
    THEN trim_end(SubSeq(s, 1, Len(s) - 1))
    ELSE s

trim(s) == trim_end(trim_start(s))

\* hotkey.split('+').collect::<Vec<&str>>(): the text before the first '+',
\* between two consecutive '+' and after the last one, empty pieces included
RECURSIVE SplitFrom(_, _, _)
SplitFrom(s, i, cur) ==
  IF i > Len(s) THEN <<cur>>
  ELSE IF CharAt(s, i) = "+" THEN <<cur>> \o SplitFrom(s, i + 1, "")
  ELSE SplitFrom(s, i + 1, cur \o CharAt(s, i))

split_plus(s) == SplitFrom(s, 1, "")

(***************************************************************************)
(* Modifiers: a set of flags.                                              *)
(***************************************************************************)
SHIFT == "SHIFT"
CONTROL == "CONTROL"
ALT == "ALT"
SUPER == "SUPER"
META == "META"
CAPS_LOCK == "CAPS_LOCK"

ModifierFlags == {SHIFT, CONTROL, ALT, SUPER, META, CAPS_LOCK}

(***************************************************************************)
(* HotKey and its parse errors.                                            *)
(***************************************************************************)
Ok(hk) == [tag |-> "Ok", hotkey |-> Some(hk), arg |-> ""]
Err(kind, text) == [tag |-> kind, hotkey |-> None, arg |-> text]

KeyOk(k) == [tag |-> "Ok", key |-> Some(k), arg |-> ""]
KeyErr(kind, text) == [tag |-> kind, key |-> None, arg |-> text]

\* HotKey::new(mods: Option<Modifiers>, key): mods.unwrap_or_default()
HotKey_new(mods, key) ==
  [mods |-> IF mods = None THEN {} ELSE mods[1], key |-> key]

\* matches with the comparison made on the unmasked modifiers
matches_unmasked(self, modifiers, key) ==
  (self.mods = modifiers) /\ (self.key = key)

\* HotKey::matches(&self, modifiers, key)
matches(self, modifiers, key) ==
  LET base_mods == {SHIFT, CONTROL, ALT, SUPER}
  IN  (self.mods = (modifiers \cap base_mods)) /\ (self.key = key)

\* the match arms of parse_key: <<accepted name, Keycode>>; the literal
\* backquote alias of Grave cannot be written in a TLA+ string and is left out
KeyNames ==
  {
    <<"BACKQUOTE", "Grave">>, <<"BACKSLASH", "BackSlash">>, <<"\\", "BackSlash">>,
    <<"BRACKETLEFT", "LeftBracket">>, <<"[", "LeftBracket">>,
    <<"BRACKETRIGHT", "RightBracket">>, <<"]", "RightBracket">>, <<"COMMA", "Comma">>,
    <<",", "Comma">>, <<"DIGIT0", "Key0">>, <<"0", "Key0">>, <<"DIGIT1", "Key1">>,
    <<"1", "Key1">>, <<"DIGIT2", "Key2">>, <<"2", "Key2">>, <<"DIGIT3", "Key3">>,
    <<"3", "Key3">>, <<"DIGIT4", "Key4">>, <<"4", "Key4">>, <<"DIGIT5", "Key5">>,
    <<"5", "Key5">>, <<"DIGIT6", "Key6">>, <<"6", "Key6">>, <<"DIGIT7", "Key7">>,
    <<"7", "Key7">>, <<"DIGIT8", "Key8">>, <<"8", "Key8">>, <<"DIGIT9", "Key9">>,
    <<"9", "Key9">>, <<"EQUAL", "Equal">>, <<"=", "Equal">>, <<"KEYA", "A">>, <<"A", "A">>,
    <<"KEYB", "B">>, <<"B", "B">>, <<"KEYC", "C">>, <<"C", "C">>, <<"KEYD", "D">>,
    <<"D", "D">>, <<"KEYE", "E">>, <<"E", "E">>, <<"KEYF", "F">>, <<"F", "F">>,
    <<"KEYG", "G">>, <<"G", "G">>, <<"KEYH", "H">>, <<"H", "H">>, <<"KEYI", "I">>,
    <<"I", "I">>, <<"KEYJ", "J">>, <<"J", "J">>, <<"KEYK", "K">>, <<"K", "K">>,
    <<"KEYL", "L">>, <<"L", "L">>, <<"KEYM", "M">>, <<"M", "M">>, <<"KEYN", "N">>,
    <<"N", "N">>, <<"KEYO", "O">>, <<"O", "O">>, <<"KEYP", "P">>, <<"P", "P">>,
    <<"KEYQ", "Q">>, <<"Q", "Q">>, <<"KEYR", "R">>, <<"R", "R">>, <<"KEYS", "S">>,
    <<"S", "S">>, <<"KEYT", "T">>, <<"T", "T">>, <<"KEYU", "U">>, <<"U", "U">>,
    <<"KEYV", "V">>, <<"V", "V">>, <<"KEYW", "W">>, <<"W", "W">>, <<"KEYX", "X">>,
    <<"X", "X">>, <<"KEYY", "Y">>, <<"Y", "Y">>, <<"KEYZ", "Z">>, <<"Z", "Z">>,
    <<"MINUS", "Minus">>, <<"-", "Minus">>, <<"PERIOD", "Dot">>, <<".", "Dot">>,
    <<"QUOTE", "Apostrophe">>, <<"'", "Apostrophe">>, <<"SEMICOLON", "Semicolon">>,
    <<";", "Semicolon">>, <<"SLASH", "Slash">>, <<"/", "Slash">>, <<"BACKSPACE", "Backspace">>,
    <<"CAPSLOCK", "CapsLock">>, <<"ENTER", "Enter">>, <<"SPACE", "Space">>, <<"TAB", "Tab">>,
    <<"DELETE", "Delete">>, <<"END", "End">>, <<"HOME", "Home">>, <<"INSERT", "Insert">>,
    <<"PAGEDOWN", "PageDown">>, <<"PAGEUP", "PageUp">>, <<"ARROWDOWN", "Down">>,
    <<"DOWN", "Down">>, <<"ARROWLEFT", "Left">>, <<"LEFT", "Left">>, <<"ARROWRIGHT", "Right">>,
    <<"RIGHT", "Right">>, <<"ARROWUP", "Up">>, <<"UP", "Up">>, <<"NUMPAD0", "Numpad0">>,
    <<"NUM0", "Numpad0">>, <<"NUMPAD1", "Numpad1">>, <<"NUM1", "Numpad1">>,
    <<"NUMPAD2", "Numpad2">>, <<"NUM2", "Numpad2">>, <<"NUMPAD3", "Numpad3">>,
    <<"NUM3", "Numpad3">>, <<"NUMPAD4", "Numpad4">>, <<"NUM4", "Numpad4">>,
    <<"NUMPAD5", "Numpad5">>, <<"NUM5", "Numpad5">>, <<"NUMPAD6", "Numpad6">>,
    <<"NUM6", "Numpad6">>, <<"NUMPAD7", "Numpad7">>, <<"NUM7", "Numpad7">>,
    <<"NUMPAD8", "Numpad8">>, <<"NUM8", "Numpad8">>, <<"NUMPAD9", "Numpad9">>,
    <<"NUM9", "Numpad9">>, <<"NUMPADADD", "NumpadAdd">>, <<"NUMADD", "NumpadAdd">>,
    <<"NUMPADPLUS", "NumpadAdd">>, <<"NUMPLUS", "NumpadAdd">>,
    <<"NUMPADDECIMAL", "NumpadDecimal">>, <<"NUMDECIMAL", "NumpadDecimal">>,
    <<"NUMPADDIVIDE", "NumpadDivide">>, <<"NUMDIVIDE", "NumpadDivide">>,
    <<"NUMPADENTER", "NumpadEnter">>, <<"NUMENTER", "NumpadEnter">>,
    <<"NUMPADEQUAL", "NumpadEquals">>, <<"NUMEQUAL", "NumpadEquals">>,
    <<"NUMPADMULTIPLY", "NumpadMultiply">>, <<"NUMMULTIPLY", "NumpadMultiply">>,
    <<"NUMPADSUBTRACT", "NumpadSubtract">>, <<"NUMSUBTRACT", "NumpadSubtract">>,
    <<"ESCAPE", "Escape">>, <<"ESC", "Escape">>, <<"F1", "F1">>, <<"F2", "F2">>,
    <<"F3", "F3">>, <<"F4", "F4">>, <<"F5", "F5">>, <<"F6", "F6">>, <<"F7", "F7">>,
    <<"F8", "F8">>, <<"F9", "F9">>, <<"F10", "F10">>, <<"F11", "F11">>, <<"F12", "F12">>,
    <<"F13", "F13">>, <<"F14", "F14">>, <<"F15", "F15">>, <<"F16", "F16">>, <<"F17", "F17">>,
    <<"F18", "F18">>, <<"F19", "F19">>, <<"F20", "F20">>
  }

\* the match of parse_key as a lookup: accepted name -> Keycode
KeyOfName ==
  [name \in {p[1] : p \in KeyNames} |-> (CHOOSE p \in KeyNames : p[1] = name)[2]]

\* parse_key matching the token as written, without to_uppercase
parse_key_case_sensitive(key) ==
  IF key \in DOMAIN KeyOfName
    THEN KeyOk(KeyOfName[key])
    ELSE KeyErr("UnsupportedKey", key)

\* parse_key(key: &str) -> Result<Keycode, HotKeyParseError>
parse_key(key) ==
  LET upper == to_uppercase(key)
  IN  IF upper \in DOMAIN KeyOfName
        THEN KeyOk(KeyOfName[upper])
        ELSE KeyErr("UnsupportedKey", key)

\* the modifier arms of the match in parse_hotkey
AltAliases == {"OPTION", "ALT"}
ControlAliases == {"CONTROL", "CTRL"}
SuperAliases == {"COMMAND", "CMD", "SUPER"}
ShiftAliases == {"SHIFT"}
CmdOrCtrlAliases == {"COMMANDORCONTROL", "COMMANDORCTRL", "CMDORCTRL", "CMDORCONTROL"}
MetaAliases == {"META"}

\* Option<Modifiers>: the flag a token adds, None when the token is no modifier
modifier_of(os, upper) ==
  IF upper \in AltAliases THEN Some(ALT)
  ELSE IF upper \in ControlAliases THEN Some(CONTROL)
  ELSE IF upper \in SuperAliases THEN Some(SUPER)
  ELSE IF upper \in ShiftAliases THEN Some(SHIFT)
  ELSE IF upper \in CmdOrCtrlAliases
    THEN (IF os = "macos" THEN Some(SUPER) ELSE Some(CONTROL))
  ELSE IF upper \in MetaAliases THEN Some(META)
  ELSE None

\* the loop without the check that a main key was already consumed
RECURSIVE parse_tokens_any_order(_, _, _, _, _, _)
parse_tokens_any_order(os, hotkey, tokens, i, mods, key) ==
  IF i > Len(tokens)
    THEN IF key = None
           THEN Err("InvalidFormat", hotkey)
           ELSE Ok(HotKey_new(Some(mods), key[1]))
    ELSE
      LET token == trim(tokens[i])
          m == modifier_of(os, to_uppercase(token))
          k == parse_key(token)
      IN  IF token = "" THEN Err("EmptyToken", hotkey)
          ELSE IF m # None
            THEN parse_tokens_any_order(os, hotkey, tokens, i + 1, mods \cup {m[1]}, key)
          ELSE IF k.tag = "Ok"
            THEN parse_tokens_any_order(os, hotkey, tokens, i + 1, mods, k.key)
          ELSE Err(k.tag, k.arg)

\* the loop with the ordering check made before the blank check
RECURSIVE parse_tokens_order_first(_, _, _, _, _, _)
parse_tokens_order_first(os, hotkey, tokens, i, mods, key) ==
  IF i > Len(tokens)
    THEN IF key = None
           THEN Err("InvalidFormat", hotkey)
           ELSE Ok(HotKey_new(Some(mods), key[1]))
    ELSE
      LET token == trim(tokens[i])
          m == modifier_of(os, to_uppercase(token))
          k == parse_key(token)
      IN  IF key # None THEN Err("InvalidFormat", hotkey)
          ELSE IF token = "" THEN Err("EmptyToken", hotkey)
          ELSE IF m # None
            THEN parse_tokens_order_first(os, hotkey, tokens, i + 1, mods \cup {m[1]}, key)
          ELSE IF k.tag = "Ok"
            THEN parse_tokens_order_first(os, hotkey, tokens, i + 1, mods, k.key)
          ELSE Err(k.tag, k.arg)

\* the for loop over the tokens of a multi-token hotkey, from token i on
RECURSIVE parse_tokens(_, _, _, _, _, _)
parse_tokens(os, hotkey, tokens, i, mods, key) ==
  IF i > Len(tokens)
    THEN IF key = None
           THEN Err("InvalidFormat", hotkey)
           ELSE Ok(HotKey_new(Some(mods), key[1]))
    ELSE
      LET token == trim(tokens[i])
          m == modifier_of(os, to_uppercase(token))
          k == parse_key(token)
      IN  IF token = "" THEN Err("EmptyToken", hotkey)
          ELSE IF key # None THEN Err("InvalidFormat", hotkey)
          ELSE IF m # None
            THEN parse_tokens(os, hotkey, tokens, i + 1, mods \cup {m[1]}, key)
          ELSE IF k.tag = "Ok"
            THEN parse_tokens(os, hotkey, tokens, i + 1, mods, k.key)
          ELSE Err(k.tag, k.arg)

\* parse_hotkey without the single-token arm: one token goes through the loop
parse_hotkey_loop_only(os, hotkey) ==
  parse_tokens(os, hotkey, split_plus(hotkey), 1, {}, None)

\* parse_hotkey(hotkey: &str) -> Result<HotKey, HotKeyParseError>
parse_hotkey(os, hotkey) ==
  LET tokens == split_plus(hotkey)
  IN  IF Len(tokens) = 1
        THEN LET k == parse_key(tokens[1])
             IN  IF k.tag = "Ok"
                   THEN Ok(HotKey_new(Some({}), k.key[1]))
                   ELSE Err(k.tag, k.arg)
        ELSE parse_tokens(os, hotkey, tokens, 1, {}, None)

\* format!("{:?}", key): the derived Debug of Keycode prints the variant name,
\* by which the model names a Keycode
keycode_debug(key) == key

\* HotKey::into_string(self)
into_string(self) ==
  (IF SHIFT \in self.mods THEN "shift+" ELSE "")
  \o (IF CONTROL \in self.mods THEN "control+" ELSE "")
  \o (IF ALT \in self.mods THEN "alt+" ELSE "")
  \o (IF SUPER \in self.mods THEN "super+" ELSE "")
  \o to_lowercase(keycode_debug(self.key))

(***************************************************************************)
(* The hotkey calls: the strings and hotkeys the operations are applied to. *)
(***************************************************************************)
\* the tokens hotkey strings are built from: modifier aliases, keys, an
\* unknown key, an empty and a blank token
InputTokens ==
  {"Ctrl", "Shift", "option", "cmd", "CmdOrCtrl", "Meta", "C", "K", "zzz", "", " "}

\* the strings of exactly n tokens joined by '+'
RECURSIVE Joined(_)
Joined(n) ==
  IF n = 1 THEN InputTokens
  ELSE {a \o "+" \o t : a \in Joined(n - 1), t \in InputTokens}

HotkeyStrings == UNION {Joined(n) : n \in 1..MaxTokens}

\* another spelling of a modifier token: the next alias of the same modifier
\* (CmdOrCtrl is Control off macOS and Super on macOS)
OtherAlias(os, token) ==
  LET u == to_uppercase(trim(token))
  IN  CASE u = "ALT" -> "Option"
        [] u = "OPTION" -> "alt"
        [] u = "CONTROL" -> "ctrl"
        [] u = "CTRL" -> "Control"
        [] u = "COMMAND" -> "Cmd"
        [] u = "CMD" -> "super"
        [] u = "SUPER" -> "command"
        [] u = "COMMANDORCONTROL" -> "CommandOrCtrl"
        [] u = "COMMANDORCTRL" -> "cmdorctrl"
        [] u = "CMDORCTRL" -> (IF os = "macos" THEN "Super" ELSE "Control")
        [] u = "CMDORCONTROL" -> "commandorcontrol"
        [] OTHER -> token

RECURSIVE JoinPlus(_)
JoinPlus(tokens) ==
  IF Len(tokens) = 1 THEN tokens[1]
  ELSE tokens[1] \o "+" \o JoinPlus(Tail(tokens))

Respelled(os, text) ==
  LET tokens == split_plus(text)
  IN  JoinPlus([i \in 1..Len(tokens) |-> OtherAlias(os, tokens[i])])

Padded(text) ==
  LET tokens == split_plus(text)
  IN  JoinPlus([i \in 1..Len(tokens) |-> " " \o tokens[i] \o "\t"])

\* the strings that differ from text only in letter case, in the whitespace
\* around tokens or in the alias chosen for a modifier
Variants(os, text) ==
  IF Len(split_plus(text)) = 1 THEN {text}
  ELSE {to_uppercase(text), Padded(to_lowercase(text)), Respelled(os, text)}

\* the keys parse_key can produce
ParsedKeycodes == {p[2] : p \in KeyNames}

\* the keys HotKey::matches is probed with
ProbeKeys == {"K", "C", "Key0"}

ParseCall(text, variant) ==
  [op |-> "parse", text |-> text, variant |-> variant, mods |-> {}, key |-> ""]
NewCall(mods, key) ==
  [op |-> "new", text |-> "", variant |-> "", mods |-> mods, key |-> key]

NoProbe == [mods |-> {}, key |-> ""]

HotkeyStart ==
  /\ parsed = None
  /\ parsedVariant = None
  /\ shown = None
  /\ reparsed = None
  /\ probe = NoProbe
  /\ matched = None
  /\ hpc = "call"

\* parse_hotkey applied to a string and to another spelling of it
ParseHotkey ==
  /\ hpc = "call"
  /\ arg.op = "parse"
  /\ parsed' = Some(parse_hotkey(target_os, arg.text))
  /\ parsedVariant' = Some(parse_hotkey(target_os, arg.variant))
  /\ hpc' = "parsed"
  /\ UNCHANGED <<target_os, arg, shown, reparsed, probe, matched>>
  /\ UNCHANGED <<dvars, svars, ivars, evars>>

\* HotKey::new(Some(mods), key)
NewHotKey ==
  /\ hpc = "call"
  /\ arg.op = "new"
  /\ parsed' = Some(Ok(HotKey_new(Some(arg.mods), arg.key)))
  /\ hpc' = "parsed"
  /\ UNCHANGED <<target_os, arg, parsedVariant, shown, reparsed, probe, matched>>
  /\ UNCHANGED <<dvars, svars, ivars, evars>>

\* hotkey.to_string(): Display for HotKey writes into_string
IntoString ==
  /\ hpc = "parsed"
  /\ parsed[1].tag = "Ok"
  /\ shown' = Some(into_string(parsed[1].hotkey[1]))
  /\ hpc' = "shown"
  /\ UNCHANGED <<target_os, arg, parsed, parsedVariant, reparsed, probe, matched>>
  /\ UNCHANGED <<dvars, svars, ivars, evars>>

\* FromStr for HotKey, applied by the daemon to its --hotkey argument
FromStr ==
  /\ hpc = "shown"
  /\ reparsed' = Some(parse_hotkey(target_os, shown[1]))
  /\ hpc' = "reparsed"
  /\ UNCHANGED <<target_os, arg, parsed, parsedVariant, shown, probe, matched>>
  /\ UNCHANGED <<dvars, svars, ivars, evars>>

\* hotkey.matches(modifiers, key)
Matches ==
  /\ hpc = "parsed"
  /\ parsed[1].tag = "Ok"
  /\ \E m \in SUBSET ModifierFlags, k \in ProbeKeys :
       /\ probe' = [mods |-> m, key |-> k]
       /\ matched' = Some(matches(parsed[1].hotkey[1], m, k))
  /\ hpc' = "probed"
  /\ UNCHANGED <<target_os, arg, parsed, parsedVariant, shown, reparsed>>
  /\ UNCHANGED <<dvars, svars, ivars, evars>>

(***************************************************************************)
(* The trigger daemon (cleave-daemon/src/main.rs): the device callbacks    *)
(* send KeyAction edges into an mpsc channel and main consumes them.       *)
(***************************************************************************)
\* the keys of the keyboard under analysis
DaemonKeys == {"LShift", "RShift", "X", "A"}

\* the --hotkey arguments under analysis; "Shift+X" is the default
DaemonHotkeys == {"Shift+X", "X"}

KeyAction(key, isPressed) == [key |-> key, pressed |-> isPressed]

\* Modifiers::from_keycode: the flag of a modifier key, None for other keys
from_keycode(key) ==
  IF key \in {"LShift", "RShift"} THEN Some({SHIFT})
  ELSE IF key \in {"LControl", "RControl"} THEN Some({CONTROL})
  ELSE IF key \in {"LAlt", "RAlt", "LOption", "ROption"} THEN Some({ALT})
  ELSE IF key \in {"LMeta", "RMeta", "Command", "RCommand"} THEN Some({SUPER})
  ELSE None

\* what Command::status() can return
SpawnResults == {"success", "failure", "NotFound", "OtherIo"}

run_cleave_one_message(spawned) ==
  IF spawned = "success" THEN "Ok"
  ELSE IF spawned = "failure" THEN "cleave exited with status"
  ELSE "Could not start cleave"

\* run_cleave: Ok(()) or the anyhow error it bails with
run_cleave(spawned) ==
  IF spawned = "success" THEN "Ok"
  ELSE IF spawned = "failure" THEN "cleave exited with status"
  ELSE IF spawned = "NotFound" THEN "Could not find cleave in PATH"
  ELSE "Could not start cleave"

DaemonIdle ==
  /\ args = [hotkey |-> [mods |-> {}, key |-> ""], persist |-> FALSE]
  /\ held = {}
  /\ rx = <<>>
  /\ main_pressed = {}
  /\ main_mods = {}
  /\ handoffs = 0
  /\ status = "none"
  /\ cleave_status = "none"
  /\ seen = <<>>
  /\ sent = 0
  /\ dpc = "off"

(***************************************************************************)
(* The interactive selection (src/app/state.rs, src/app/mod.rs).  f32      *)
(* coordinates are integers: every value the handlers compute from integer *)
(* pointer positions by subtraction is exact in f32.                       *)
(***************************************************************************)
Rect(x, y, w, h) == [x |-> x, y |-> y, w |-> w, h |-> h]

\* CleaveState::default()
DefaultState ==
  [selection |-> [drag |-> None, selection |-> None],
   mouse_position |-> <<0, 0>>,
   mode |-> "Move",
   size |-> None]

\* the pointer positions of CursorMoved events: MaxCoord + 1 columns of two rows
Positions == (0..MaxCoord) \X {0, 1}

\* the keys of KeyboardInput events: <<physical key, logical key>>
SelectionKeys ==
  {<<"ArrowUp", "ArrowUp">>, <<"ArrowDown", "ArrowDown">>,
   <<"ArrowLeft", "ArrowLeft">>, <<"ArrowRight", "ArrowRight">>,
   <<"ShiftLeft", "Shift">>, <<"ShiftRight", "Shift">>,
   <<"ControlLeft", "Control">>, <<"ControlRight", "Control">>}

WindowEvent(type, position, elementState, button, physical_key, logical_key) ==
  [type |-> type, position |-> position, state |-> elementState, button |-> button,
   physical_key |-> physical_key, logical_key |-> logical_key]

start_drag(self) ==
  IF /\ self.selection.drag # None
     /\ self.selection.drag[1].x # 0
     /\ self.selection.drag[1].y # 0
  THEN self
  ELSE [self EXCEPT !.selection.drag =
          Some(Rect(self.mouse_position[1], self.mouse_position[2], 0, 0))]

end_drag_normalized(self) ==
  LET abs(v) == IF v < 0 THEN -v ELSE v
      min(a, b) == IF a < b THEN a ELSE b
      norm(r) == Rect(min(r.x, r.x + r.w), min(r.y, r.y + r.h), abs(r.w), abs(r.h))
  IN  [self EXCEPT !.selection =
         [drag |-> None,
          selection |-> IF self.selection.drag = None THEN None
                        ELSE Some(norm(self.selection.drag[1]))]]

end_drag_keeps_drag(self) ==
  [self EXCEPT !.selection.selection = self.selection.drag]

end_drag(self) ==
  [self EXCEPT !.selection = [drag |-> None, selection |-> self.selection.drag]]

cancel_drag_keeps_selection(self) == [self EXCEPT !.selection.drag = None]

cancel_drag(self) ==
  [self EXCEPT !.selection = [drag |-> None, selection |-> None]]

clamp(v, lo, hi) == IF v < lo THEN lo ELSE IF v > hi THEN hi ELSE v

handle_move_default_viewport(self, dir) ==
  IF self.selection.selection = None THEN self
  ELSE LET width == IF self.size = None THEN MaxCoord ELSE self.size[1][1]
           height == IF self.size = None THEN MaxCoord ELSE self.size[1][2]
           sel == self.selection.selection[1]
           dx == IF dir = "Left" THEN -1 ELSE IF dir = "Right" THEN 1 ELSE 0
           dy == IF dir = "Up" THEN -1 ELSE IF dir = "Down" THEN 1 ELSE 0
           x_delta == IF self.mode = "Resize" THEN 0 ELSE dx
           y_delta == IF self.mode = "Resize" THEN 0 ELSE dy
           moved == IF self.mode \in {"Move", "InverseResize"}
                    THEN [sel EXCEPT !.x = clamp(sel.x + x_delta, 0, width),
                                     !.y = clamp(sel.y + y_delta, 0, height)]
                    ELSE sel
           sized == IF self.mode \in {"Move", "Resize"}
                    THEN [moved EXCEPT !.w = clamp(moved.w + dx, 0, width),
                                       !.h = clamp(moved.h + dy, 0, height)]
                    ELSE moved
       IN  [self EXCEPT !.selection.selection = Some(sized)]

handle_move(self, dir) ==
  IF self.size = None \/ self.selection.selection = None THEN self
  ELSE LET width == self.size[1][1]
           height == self.size[1][2]
           sel == self.selection.selection[1]
           dx == IF dir = "Left" THEN -1 ELSE IF dir = "Right" THEN 1 ELSE 0
           dy == IF dir = "Up" THEN -1 ELSE IF dir = "Down" THEN 1 ELSE 0
           x_delta == IF self.mode = "Resize" THEN 0 ELSE dx
           y_delta == IF self.mode = "Resize" THEN 0 ELSE dy
           moved == IF self.mode \in {"Move", "InverseResize"}
                    THEN [sel EXCEPT !.x = clamp(sel.x + x_delta, 0, width),
                                     !.y = clamp(sel.y + y_delta, 0, height)]
                    ELSE sel
           sized == IF self.mode \in {"Move", "Resize"}
                    THEN [moved EXCEPT !.w = clamp(moved.w + dx, 0, width),
                                       !.h = clamp(moved.h + dy, 0, height)]
                    ELSE moved
       IN  [self EXCEPT !.selection.selection = Some(sized)]

set_mode(self, mode) == [self EXCEPT !.mode = mode]

\* CleaveState::handle_key: dispatch on the physical key
handle_key(self, event) ==
  IF event.state = "Pressed" /\ event.physical_key = "ArrowUp" THEN handle_move(self, "Up")
  ELSE IF event.state = "Pressed" /\ event.physical_key = "ArrowDown" THEN handle_move(self, "Down")
  ELSE IF event.state = "Pressed" /\ event.physical_key = "ArrowLeft" THEN handle_move(self, "Left")
  ELSE IF event.state = "Pressed" /\ event.physical_key = "ArrowRight" THEN handle_move(self, "Right")
  ELSE IF event.state = "Pressed" /\ event.physical_key = "ShiftLeft"
    THEN set_mode(self, "InverseResize")
  ELSE IF event.state = "Released" /\ event.physical_key \in {"ShiftLeft", "ControlLeft"}
    THEN set_mode(self, "Move")
  ELSE IF event.state = "Pressed" /\ event.physical_key = "ControlLeft"
    THEN set_mode(self, "Resize")
  ELSE self

handle_event_clamped(self, event) ==
  IF event.type = "KeyboardInput" THEN handle_key(self, event)
  ELSE IF event.type = "CursorMoved" THEN
    LET at == [self EXCEPT !.mouse_position = event.position]
    IN  IF self.selection.drag = None THEN at
        ELSE LET drag == self.selection.drag[1]
             IN  [at EXCEPT !.selection.drag =
                    Some([drag EXCEPT !.w = clamp(event.position[1] - drag.x, 0, MaxCoord),
                                      !.h = clamp(event.position[2] - drag.y, 0, MaxCoord)])]
  ELSE IF event.type = "MouseInput" THEN
    IF event.state = "Pressed" /\ event.button = "Left" THEN start_drag(self)
    ELSE IF event.state = "Released" /\ event.button = "Left" THEN end_drag(self)
    ELSE IF event.button = "Right" THEN cancel_drag(self)
    ELSE self
  ELSE self

\* CleaveState::handle_event
handle_event(self, event) ==
  IF event.type = "KeyboardInput" THEN handle_key(self, event)
  ELSE IF event.type = "CursorMoved" THEN
    LET at == [self EXCEPT !.mouse_position = event.position]
    IN  IF self.selection.drag = None THEN at
        ELSE LET drag == self.selection.drag[1]
             IN  [at EXCEPT !.selection.drag =
                    Some([drag EXCEPT !.w = event.position[1] - drag.x,
                                      !.h = event.position[2] - drag.y])]
  ELSE IF event.type = "MouseInput" THEN
    IF event.state = "Pressed" /\ event.button = "Left" THEN start_drag(self)
    ELSE IF event.state = "Released" /\ event.button = "Left" THEN end_drag(self)
    ELSE IF event.button = "Right" THEN cancel_drag(self)
    ELSE self
  ELSE self

execute_key_command_physical(self, event) == handle_key(self, event)

\* App::execute_key_command with a context present: dispatch on the logical
\* key, for the arrow and modifier keys
execute_key_command(self, event) ==
  IF event.state = "Pressed" /\ event.logical_key = "ArrowDown" THEN handle_move(self, "Down")
  ELSE IF event.state = "Pressed" /\ event.logical_key = "ArrowUp" THEN handle_move(self, "Up")
  ELSE IF event.state = "Pressed" /\ event.logical_key = "ArrowLeft" THEN handle_move(self, "Left")
  ELSE IF event.state = "Pressed" /\ event.logical_key = "ArrowRight" THEN handle_move(self, "Right")
  ELSE IF event.state = "Pressed" /\ event.logical_key = "Shift"
    THEN set_mode(self, "InverseResize")
  ELSE IF event.state = "Released" /\ event.logical_key \in {"Shift", "Control"}
    THEN set_mode(self, "Move")
  ELSE IF event.state = "Pressed" /\ event.logical_key = "Control"
    THEN set_mode(self, "Resize")
  ELSE self

\* App::handle_input
handle_input(self, event) ==
  LET handled == handle_event(self, event)
  IN  IF event.type = "KeyboardInput" THEN execute_key_command(handled, event)
      ELSE handled

\* no event delivered yet
NoInput == WindowEvent("none", <<0, 0>>, "", "", "", "")

SelectionIdle ==
  /\ state = DefaultState
  /\ spc = "off"
  /\ input = NoInput
  /\ initial = None

(***************************************************************************)
(* The in-process daemon (src/daemon.rs) and the key-state fold            *)
(* HotKey::check of the main crate (src/hotkey.rs).  A main-crate HotKey   *)
(* holds a keyboard_types Code where the daemon crate holds a Keycode.     *)
(***************************************************************************)
\* HotKey::new of the main crate
Main_HotKey_new(mods, key) ==
  LET given == IF mods = None THEN {} ELSE mods[1]
  IN  [mods |-> IF META \in given THEN (given \ {META}) \cup {SUPER} ELSE given,
       key |-> key]

\* HotKey::matches of the main crate
Main_matches(self, modifiers, key) ==
  LET base_mods == {SHIFT, CONTROL, ALT, SUPER}
  IN  (self.mods = (modifiers \cap base_mods)) /\ (self.key = key)

\* keycode_to_code, on the keys of the keyboard under analysis
keycode_to_code(keycode) ==
  IF keycode = "A" THEN "KeyA"
  ELSE IF keycode = "X" THEN "KeyX"
  ELSE IF keycode = "LShift" THEN "ShiftLeft"
  ELSE "ShiftRight"

\* the loop of HotKey::check from position i on: (mods, code) after the fold
RECURSIVE check_fold(_, _, _, _)
check_fold(codes, i, mods, code) ==
  IF i > Len(codes) THEN [mods |-> mods, code |-> code]
  ELSE LET key == codes[i]
       IN  IF key \in {"LShift", "RShift"} THEN check_fold(codes, i + 1, mods \cup {SHIFT}, code)
           ELSE IF key \in {"LControl", "RControl"}
             THEN check_fold(codes, i + 1, mods \cup {CONTROL}, code)
           ELSE IF key \in {"LAlt", "RAlt"} THEN check_fold(codes, i + 1, mods \cup {ALT}, code)
           ELSE IF key \in {"LMeta", "RMeta"} THEN check_fold(codes, i + 1, mods \cup {SUPER}, code)
           ELSE check_fold(codes, i + 1, mods, Some(key))

check_first_wins(self, codes) ==
  LET folded == check_fold(codes, 1, {}, None)
      firsts == {i \in 1..Len(codes) : check_fold(<<codes[i]>>, 1, {}, None).code # None}
  IN  IF folded.code = None THEN FALSE
      ELSE Main_matches(self, folded.mods,
                   keycode_to_code(codes[CHOOSE i \in firsts : \A j \in firsts : i <= j]))

\* HotKey::check
check(self, codes) ==
  LET folded == check_fold(codes, 1, {}, None)
  IN  IF folded.code = None THEN FALSE
      ELSE Main_matches(self, folded.mods, keycode_to_code(folded.code[1]))

\* Daemon::is_pressed
is_pressed(self) == check(self.hotkey, self.pressed)

\* Daemon::clear_buffer
clear_buffer(self) == [self EXCEPT !.pressed = <<>>]

\* Daemon::start
Daemon_start(hotkey) == [pressed |-> <<>>, hotkey |-> hotkey, listening |-> TRUE]

\* pressed.retain(|&k| k != key)
RECURSIVE retain_not(_, _)
retain_not(codes, key) ==
  IF codes = <<>> THEN <<>>
  ELSE IF Head(codes) = key THEN retain_not(Tail(codes), key)
  ELSE <<Head(codes)>> \o retain_not(Tail(codes), key)

\* no get_pressed call in progress
NoCall == [pc |-> "idle", val |-> FALSE, is_pressed |-> None, read |-> <<>>]

\* the hotkeys the in-process daemon is started with
InProcessHotkeys ==
  {Main_HotKey_new(Some({SHIFT}), "KeyX"), Main_HotKey_new(None, "KeyX")}

InProcessIdle ==
  /\ daemon = [pressed |-> <<>>, hotkey |-> [mods |-> {}, key |-> ""], listening |-> FALSE]
  /\ keys_down = {}
  /\ gp = NoCall
  /\ returned = None
  /\ trues = 0
  /\ tick = "idle"
  /\ sends = 0

(***************************************************************************)
(* Crop and export (src/util/mod.rs) and the two callers of it in          *)
(* src/app/mod.rs.  An f32 coordinate is held as an integer number of      *)
(* tenths; pixel counts (u32) are integers.                                *)
(***************************************************************************)
\* f32::ceil, from tenths to a whole number
ceil(v) == -((-v) \div 10)

\* f32::floor, from tenths to a whole number
floor(v) == v \div 10

\* f32::round of a non-negative value, from tenths to a whole number
round(v) == (v + 5) \div 10

\* the saturating cast `as u32` of a float: negative values become 0
as_u32(n) == IF n < 0 THEN 0 ELSE n

\* an RgbaImage, by its dimensions and the filter it was resampled with
Image(width, height) == [width |-> width, height |-> height, resampled |-> None]

\* GenericImageView::view followed by to_image: the sub-image, or a panic when
\* the rectangle reaches beyond the image
view(img, x, y, width, height) ==
  IF x + width <= img.width /\ y + height <= img.height
    THEN [outcome |-> "Ok", image |-> Some(Image(width, height))]
    ELSE [outcome |-> "panic", image |-> None]

crop_image_selection_first(img, options, selection) ==
  LET rect == [x |-> as_u32(ceil(selection.x)), y |-> as_u32(ceil(selection.y)),
               w |-> as_u32(floor(selection.w)), h |-> as_u32(floor(selection.h))]
  IN  [rect |-> rect] @@ view(img, rect.x, rect.y, rect.w, rect.h)

crop_image_rounds_out(img, options, selection) ==
  LET given == IF options # None /\ options[1].region # None
                 THEN options[1].region[1] ELSE selection
      rect == [x |-> as_u32(floor(given.x)), y |-> as_u32(floor(given.y)),
               w |-> as_u32(ceil(given.w)), h |-> as_u32(ceil(given.h))]
  IN  [rect |-> rect] @@ view(img, rect.x, rect.y, rect.w, rect.h)

\* crop_image: the rectangle handed to view, and what view makes of it
crop_image(img, options, selection) ==
  LET given == IF options # None /\ options[1].region # None
                 THEN options[1].region[1] ELSE selection
      rect == [x |-> as_u32(ceil(given.x)), y |-> as_u32(ceil(given.y)),
               w |-> as_u32(floor(given.w)), h |-> as_u32(floor(given.h))]
  IN  [rect |-> rect] @@ view(img, rect.x, rect.y, rect.w, rect.h)

\* resize_image; scale is in tenths
resize_image(image, scale, filter) ==
  [width |-> as_u32(round(image.width * scale)),
   height |-> as_u32(round(image.height * scale)),
   resampled |-> Some(filter)]

\* what the fallible sinks answer: the write of the file, the opening of the
\* clipboard and the set_image call on it
Sinks ==
  [write : {"Ok", "Err"}, clipboard_new : {"Ok", "Err"}, set_image : {"Ok", "Err"}]

\* save_selection: the Result, the artifact written and whether a line was logged
save_selection(image, options, sinks) ==
  LET scaled == IF options # None /\ options[1].scale # None
                  THEN resize_image(image, options[1].scale[1],
                                    IF options[1].filter # None
                                      THEN options[1].filter[1] ELSE "Nearest")
                  ELSE image
  IN  IF sinks.write = "Ok"
        THEN [result |-> "Ok", artifact |-> Some([to |-> "file", image |-> scaled]),
              logged |-> FALSE]
        ELSE [result |-> "Err", artifact |-> None, logged |-> FALSE]

\* save_to_clipboard
save_to_clipboard(image_data, sinks) ==
  IF sinks.clipboard_new = "Err"
    THEN [result |-> "Err", artifact |-> None, logged |-> FALSE]
  ELSE IF sinks.set_image = "Err"
    THEN [result |-> "Ok", artifact |-> None, logged |-> TRUE]
  ELSE [result |-> "Ok", artifact |-> Some([to |-> "clipboard", image |-> image_data]),
        logged |-> FALSE]

\* the regions the command line can carry, in tenths
Regions ==
  {Rect(x, y, w, h) : x \in {0, 104}, y \in {106},
                      w \in {-5, 0, 197, MaxFrame * 10}, h \in {0, 192}}

\* the command lines: the options that reach crop and export; monitor_list,
\* delay and daemon_hotkey are left at their defaults
CommandLines ==
  [region : {None} \cup {Some(r) : r \in Regions},
   scale : {None, Some(0), Some(5), Some(20)},
   filter : {None, Some("Triangle")},
   output_dir : {None, Some("out")},
   image_format : {None, Some("Jpeg")}]

\* Args::verify, on those options: Err with its message, or Ok(Verified)
verify(self) ==
  IF self.scale # None /\ self.scale[1] <= 0
    THEN [ok |-> FALSE, verified |-> None, message |-> "Scale factor must be greater than 0"]
  ELSE IF self.region # None /\ (self.region[1].w = 0 \/ self.region[1].h = 0)
    THEN [ok |-> FALSE, verified |-> None,
          message |-> "Region width and height must be greater than 0"]
  ELSE IF self.image_format # None /\ self.output_dir = None
    THEN [ok |-> FALSE, verified |-> None,
          message |-> "Output format and filename is only used when output directory is provided"]
  ELSE [ok |-> TRUE,
        verified |-> Some([output_dir |-> self.output_dir,
                           image_format |-> self.image_format,
                           region |-> self.region, scale |-> self.scale,
                           filter |-> self.filter]),
        message |-> ""]

\* the captured frame
Frame == Image(MaxFrame, MaxFrame)

\* the selections a drag inside the frame commits: anchor and pointer are
\* positions within the frame and the extent is pointer minus anchor
FrameX == {0, 104, 301, MaxFrame * 10}

FrameY == {4, 106, 298}

Selections ==
  {Rect(ax, ay, px - ax, py - ay) : ax \in FrameX, px \in FrameX, ay \in FrameY, py \in FrameY}

\* no export made yet
NoExport ==
  [path |-> "none", options |-> None, selection |-> None, crop |-> None,
   sinks |-> None, result |-> "none", artifact |-> None, logged |-> FALSE]

(***************************************************************************)
(* The event loop side of the App (src/app/mod.rs): resumed, capture_image *)
(* and window_event.  An App value is held as the record of the three      *)
(* variables it is spread over, [app, session, state].  daemon_hotkey is   *)
(* read from the Verified options by this code; the Verified of            *)
(* src/args.rs has no such field, so it is modelled as an Option field.    *)
(***************************************************************************)
\* no window yet: context is None, nothing in the hotkey event receiver
NoSession ==
  [context |-> FALSE, visible |-> FALSE, control_flow |-> "Default",
   receiver |-> 0, received |-> FALSE, exited |-> FALSE]

\* self.args.as_ref().is_some_and(|a| a.daemon_hotkey.is_some())
daemon_mode(self) == self.app.args # None /\ self.app.args[1].daemon_hotkey # None

\* App::capture_image: the frame is stored and the window is shown
capture_image(self) ==
  IF ~self.session.context THEN self
  ELSE [self EXCEPT !.app.current_image = Some(Frame), !.session.visible = TRUE]

\* ApplicationHandler::resumed; the window is created invisible
resumed(self) ==
  IF self.session.context THEN self
  ELSE IF daemon_mode(self)
    THEN [self EXCEPT !.session.context = TRUE, !.session.visible = FALSE,
                      !.session.control_flow = "Wait"]
  ELSE capture_image([self EXCEPT !.session.context = TRUE])

\* ApplicationHandler::window_event
window_event(self, event) ==
  IF daemon_mode(self) /\ self.app.current_image = None
    THEN IF self.session.receiver > 0
           THEN [self EXCEPT !.session.receiver = @ - 1,
                             !.session.control_flow = "Poll",
                             !.session.received = TRUE]
           ELSE self
  ELSE LET handled == [self EXCEPT !.state = handle_input(self.state, event)]
           captured == IF /\ handled.session.context
                          /\ ~handled.session.visible
                          /\ handled.app.current_image = None
                       THEN capture_image(handled) ELSE handled
       IN  IF event.type = "CloseRequested"
             THEN [captured EXCEPT !.session.exited = TRUE]
             ELSE captured

\* the window events delivered; Space and Escape are left to the export model
SessionEvents ==
  {WindowEvent("CursorMoved", position, "", "", "", "") : position \in Positions}
    \cup {WindowEvent("MouseInput", <<0, 0>>, elementState, "Left", "", "") :
            elementState \in {"Pressed", "Released"}}
    \cup {WindowEvent("KeyboardInput", <<0, 0>>, "Pressed", "", key, key) :
            key \in {"ArrowUp", "ArrowDown", "ArrowLeft", "ArrowRight"}}
    \cup {WindowEvent("RedrawRequested", <<0, 0>>, "", "", "", ""),
          WindowEvent("CloseRequested", <<0, 0>>, "", "", "", "")}

ExportIdle ==
  /\ app = [pc |-> "off", args |-> None, current_image |-> None]
  /\ export = NoExport
  /\ session = NoSession

\* the grammar: parse_hotkey on every string of at most MaxTokens tokens
InitGrammar ==
  /\ target_os \in {"macos", "other"}
  /\ \E text \in HotkeyStrings :
       \E variant \in Variants(target_os, text) : arg = ParseCall(text, variant)
  /\ HotkeyStart
  /\ DaemonIdle
  /\ SelectionIdle
  /\ InProcessIdle
  /\ ExportIdle

NextGrammar == ParseHotkey

SpecGrammar == InitGrammar /\ [][NextGrammar]_vars

\* the round trip: every hotkey of a parsable key, formatted and parsed again
InitFormat ==
  /\ target_os \in {"macos", "other"}
  /\ \E mods \in SUBSET {SHIFT, CONTROL, ALT, SUPER, META}, key \in ParsedKeycodes :
       arg = NewCall(mods, key)
  /\ HotkeyStart
  /\ DaemonIdle
  /\ SelectionIdle
  /\ InProcessIdle
  /\ ExportIdle

NextFormat == NewHotKey \/ IntoString \/ FromStr

SpecFormat == InitFormat /\ [][NextFormat]_vars

\* matching: hotkeys of the probe keys against every modifier state
InitMatch ==
  /\ target_os \in {"macos", "other"}
  /\ \E mods \in SUBSET {SHIFT, CONTROL, ALT, SUPER, META}, key \in ProbeKeys :
       arg = NewCall(mods, key)
  /\ HotkeyStart
  /\ DaemonIdle
  /\ SelectionIdle
  /\ InProcessIdle
  /\ ExportIdle

NextMatch == NewHotKey \/ Matches

SpecMatch == InitMatch /\ [][NextMatch]_vars

(***************************************************************************)
(* The daemon loop.                                                        *)
(***************************************************************************)
\* on_key_down callback: ta.send(KeyAction { key, pressed: true })
KeyDown ==
  /\ dpc = "loop"
  /\ sent < MaxEdges
  /\ \E key \in DaemonKeys \ held :
       /\ held' = held \cup {key}
       /\ rx' = Append(rx, KeyAction(key, TRUE))
  /\ sent' = sent + 1
  /\ UNCHANGED <<args, main_pressed, main_mods, handoffs, status, cleave_status, seen, dpc>>
  /\ UNCHANGED <<hvars, svars, ivars, evars>>

\* on_key_up callback: tb.send(KeyAction { key, pressed: false })
KeyUp ==
  /\ dpc = "loop"
  /\ sent < MaxEdges
  /\ \E key \in held :
       /\ held' = held \ {key}
       /\ rx' = Append(rx, KeyAction(key, FALSE))
  /\ sent' = sent + 1
  /\ UNCHANGED <<args, main_pressed, main_mods, handoffs, status, cleave_status, seen, dpc>>
  /\ UNCHANGED <<hvars, svars, ivars, evars>>

\* one iteration of `for event in rx.iter()`, run_cleave included
RecvEvent_breaks_always ==
  /\ dpc = "loop"
  /\ rx # <<>>
  /\ LET event == Head(rx)
         m == from_keycode(event.key)
         mods1 == IF m = None THEN main_mods
                  ELSE IF event.pressed THEN main_mods \cup m[1]
                  ELSE main_mods \ m[1]
         pressed1 == IF event.pressed THEN main_pressed \cup {event.key}
                     ELSE main_pressed \ {event.key}
     IN  /\ rx' = Tail(rx)
         /\ IF matches(args.hotkey, mods1, event.key) /\ event.pressed
            THEN \E spawned \in SpawnResults :
                   /\ handoffs' = handoffs + 1
                   /\ status' = run_cleave(spawned)
                   /\ cleave_status' = spawned
                   /\ IF run_cleave(spawned) = "Ok"
                      THEN /\ main_pressed' = {}
                           /\ main_mods' = {}
                           /\ seen' = <<>>
                           /\ dpc' = "done"
                      ELSE /\ main_pressed' = pressed1
                           /\ main_mods' = mods1
                           /\ seen' = Append(seen, event)
                           /\ dpc' = "failed"
            ELSE /\ main_pressed' = pressed1
                 /\ main_mods' = mods1
                 /\ seen' = Append(seen, event)
                 /\ UNCHANGED <<handoffs, status, cleave_status, dpc>>
  /\ UNCHANGED <<args, held, sent>>
  /\ UNCHANGED <<hvars, svars, ivars, evars>>

RecvEvent_never_breaks ==
  /\ dpc = "loop"
  /\ rx # <<>>
  /\ LET event == Head(rx)
         m == from_keycode(event.key)
         mods1 == IF m = None THEN main_mods
                  ELSE IF event.pressed THEN main_mods \cup m[1]
                  ELSE main_mods \ m[1]
         pressed1 == IF event.pressed THEN main_pressed \cup {event.key}
                     ELSE main_pressed \ {event.key}
     IN  /\ rx' = Tail(rx)
         /\ IF matches(args.hotkey, mods1, event.key) /\ event.pressed
            THEN \E spawned \in SpawnResults :
                   /\ handoffs' = handoffs + 1
                   /\ status' = run_cleave(spawned)
                   /\ cleave_status' = spawned
                   /\ IF run_cleave(spawned) = "Ok"
                      THEN /\ main_pressed' = {}
                           /\ main_mods' = {}
                           /\ seen' = <<>>
                           /\ dpc' = "loop"
                      ELSE /\ main_pressed' = pressed1
                           /\ main_mods' = mods1
                           /\ seen' = Append(seen, event)
                           /\ dpc' = "failed"
            ELSE /\ main_pressed' = pressed1
                 /\ main_mods' = mods1
                 /\ seen' = Append(seen, event)
                 /\ UNCHANGED <<handoffs, status, cleave_status, dpc>>
  /\ UNCHANGED <<args, held, sent>>
  /\ UNCHANGED <<hvars, svars, ivars, evars>>

RecvEvent_keeps_mods ==
  /\ dpc = "loop"
  /\ rx # <<>>
  /\ LET event == Head(rx)
         m == from_keycode(event.key)
         mods1 == IF m = None THEN main_mods
                  ELSE IF event.pressed THEN main_mods \cup m[1]
                  ELSE main_mods \ m[1]
         pressed1 == IF event.pressed THEN main_pressed \cup {event.key}
                     ELSE main_pressed \ {event.key}
     IN  /\ rx' = Tail(rx)
         /\ IF matches(args.hotkey, mods1, event.key) /\ event.pressed
            THEN \E spawned \in SpawnResults :
                   /\ handoffs' = handoffs + 1
                   /\ status' = run_cleave(spawned)
                   /\ cleave_status' = spawned
                   /\ IF run_cleave(spawned) = "Ok"
                      THEN /\ main_pressed' = {}
                           /\ main_mods' = mods1
                           /\ seen' = <<>>
                           /\ dpc' = IF args.persist THEN "loop" ELSE "done"
                      ELSE /\ main_pressed' = pressed1
                           /\ main_mods' = mods1
                           /\ seen' = Append(seen, event)
                           /\ dpc' = "failed"
            ELSE /\ main_pressed' = pressed1
                 /\ main_mods' = mods1
                 /\ seen' = Append(seen, event)
                 /\ UNCHANGED <<handoffs, status, cleave_status, dpc>>
  /\ UNCHANGED <<args, held, sent>>
  /\ UNCHANGED <<hvars, svars, ivars, evars>>

RecvEvent_any_edge ==
  /\ dpc = "loop"
  /\ rx # <<>>
  /\ LET event == Head(rx)
         m == from_keycode(event.key)
         mods1 == IF m = None THEN main_mods
                  ELSE IF event.pressed THEN main_mods \cup m[1]
                  ELSE main_mods \ m[1]
         pressed1 == IF event.pressed THEN main_pressed \cup {event.key}
                     ELSE main_pressed \ {event.key}
     IN  /\ rx' = Tail(rx)
         /\ IF matches(args.hotkey, mods1, event.key)
            THEN \E spawned \in SpawnResults :
                   /\ handoffs' = handoffs + 1
                   /\ status' = run_cleave(spawned)
                   /\ cleave_status' = spawned
                   /\ IF run_cleave(spawned) = "Ok"
                      THEN /\ main_pressed' = {}
                           /\ main_mods' = {}
                           /\ seen' = <<>>
                           /\ dpc' = IF args.persist THEN "loop" ELSE "done"
                      ELSE /\ main_pressed' = pressed1
                           /\ main_mods' = mods1
                           /\ seen' = Append(seen, event)
                           /\ dpc' = "failed"
            ELSE /\ main_pressed' = pressed1
                 /\ main_mods' = mods1
                 /\ seen' = Append(seen, event)
                 /\ UNCHANGED <<handoffs, status, cleave_status, dpc>>
  /\ UNCHANGED <<args, held, sent>>
  /\ UNCHANGED <<hvars, svars, ivars, evars>>

RecvEvent ==
  /\ dpc = "loop"
  /\ rx # <<>>
  /\ LET event == Head(rx)
         m == from_keycode(event.key)
         mods1 == IF m = None THEN main_mods
                  ELSE IF event.pressed THEN main_mods \cup m[1]
                  ELSE main_mods \ m[1]
         pressed1 == IF event.pressed THEN main_pressed \cup {event.key}
                     ELSE main_pressed \ {event.key}
     IN  /\ rx' = Tail(rx)
         /\ IF matches(args.hotkey, mods1, event.key) /\ event.pressed
            THEN \E spawned \in SpawnResults :
                   /\ handoffs' = handoffs + 1
                   /\ status' = run_cleave(spawned)
                   /\ cleave_status' = spawned
                   /\ IF run_cleave(spawned) = "Ok"
                      THEN /\ main_pressed' = {}
                           /\ main_mods' = {}
                           /\ seen' = <<>>
                           /\ dpc' = IF args.persist THEN "loop" ELSE "done"
                      ELSE /\ main_pressed' = pressed1
                           /\ main_mods' = mods1
                           /\ seen' = Append(seen, event)
                           /\ dpc' = "failed"
            ELSE /\ main_pressed' = pressed1
                 /\ main_mods' = mods1
                 /\ seen' = Append(seen, event)
                 /\ UNCHANGED <<handoffs, status, cleave_status, dpc>>
  /\ UNCHANGED <<args, held, sent>>
  /\ UNCHANGED <<hvars, svars, ivars, evars>>

\* the daemon started with each hotkey argument, one-shot and persistent
InitDaemon ==
  /\ target_os = "other"
  /\ \E text \in DaemonHotkeys, persist \in BOOLEAN :
       /\ arg = ParseCall(text, text)
       /\ args = [hotkey |-> parse_hotkey(target_os, text).hotkey[1], persist |-> persist]
  /\ HotkeyStart
  /\ held = {}
  /\ rx = <<>>
  /\ main_pressed = {}
  /\ main_mods = {}
  /\ handoffs = 0
  /\ status = "none"
  /\ cleave_status = "none"
  /\ seen = <<>>
  /\ sent = 0
  /\ dpc = "loop"
  /\ SelectionIdle
  /\ InProcessIdle
  /\ ExportIdle

NextDaemon == KeyDown \/ KeyUp \/ RecvEvent

SpecDaemon == InitDaemon /\ [][NextDaemon]_vars

(***************************************************************************)
(* The interactive session: window events delivered to App::window_event   *)
(* without a daemon hotkey, after resumed has created the context.         *)
(***************************************************************************)
\* WindowEvent::CursorMoved
CursorMoved ==
  /\ spc = "running"
  /\ \E position \in Positions :
       /\ input' = WindowEvent("CursorMoved", position, "", "", "", "")
       /\ state' = handle_input(state, input')
  /\ UNCHANGED <<spc, initial>>
  /\ UNCHANGED <<hvars, dvars, ivars, evars>>

\* WindowEvent::MouseInput
MouseInput ==
  /\ spc = "running"
  /\ \E elementState \in {"Pressed", "Released"}, button \in {"Left", "Right", "Middle"} :
       /\ input' = WindowEvent("MouseInput", <<0, 0>>, elementState, button, "", "")
       /\ state' = handle_input(state, input')
  /\ UNCHANGED <<spc, initial>>
  /\ UNCHANGED <<hvars, dvars, ivars, evars>>

\* WindowEvent::KeyboardInput
KeyboardInput ==
  /\ spc = "running"
  /\ \E elementState \in {"Pressed", "Released"}, key \in SelectionKeys :
       /\ input' = WindowEvent("KeyboardInput", <<0, 0>>, elementState, "", key[1], key[2])
       /\ state' = handle_input(state, input')
  /\ UNCHANGED <<spc, initial>>
  /\ UNCHANGED <<hvars, dvars, ivars, evars>>

InitSelection ==
  /\ target_os = "other"
  /\ arg = NewCall({}, "")
  /\ HotkeyStart
  /\ DaemonIdle
  /\ state = DefaultState
  /\ spc = "running"
  /\ input = NoInput
  /\ initial = None
  /\ InProcessIdle
  /\ ExportIdle

NextSelection == CursorMoved \/ MouseInput \/ KeyboardInput

SpecSelection == InitSelection /\ [][NextSelection]_vars

(***************************************************************************)
(* A CleaveState driven directly: the viewport supplied through size(), a  *)
(* selection in place, and handle_move, set_mode and arrow key presses     *)
(* applied to it.                                                          *)
(***************************************************************************)
\* the viewport handed to CleaveState::size: (width, height)
Viewport == <<MaxCoord + 1, 1>>

Directions == {"Up", "Down", "Left", "Right"}

SelectionModes == {"Move", "InverseResize", "Resize"}

\* the selections the state starts with
StartRects ==
  {Rect(x, y, w, h) : x \in 0..Viewport[1], y \in 0..Viewport[2],
                      w \in -1..Viewport[1], h \in -1..Viewport[2]}

\* CleaveState::size
size(self, dimensions) == [self EXCEPT !.size = Some(dimensions)]

\* a direct call of a CleaveState method, recorded like an event
Call(method, argument) == WindowEvent(method, <<0, 0>>, "", "", "", argument)

\* CleaveState::handle_move(dir)
HandleMove ==
  /\ spc = "direct"
  /\ \E dir \in Directions :
       /\ input' = Call("handle_move", dir)
       /\ state' = handle_move(state, dir)
  /\ UNCHANGED <<spc, initial>>
  /\ UNCHANGED <<hvars, dvars, ivars, evars>>

\* CleaveState::set_mode(mode)
SetMode ==
  /\ spc = "direct"
  /\ \E mode \in SelectionModes :
       /\ input' = Call("set_mode", mode)
       /\ state' = set_mode(state, mode)
  /\ UNCHANGED <<spc, initial>>
  /\ UNCHANGED <<hvars, dvars, ivars, evars>>

\* App::handle_input on the press of an arrow key
ArrowKeyPressed ==
  /\ spc = "direct"
  /\ \E key \in {"ArrowUp", "ArrowDown", "ArrowLeft", "ArrowRight"} :
       /\ input' = WindowEvent("KeyboardInput", <<0, 0>>, "Pressed", "", key, key)
       /\ state' = handle_input(state, input')
  /\ UNCHANGED <<spc, initial>>
  /\ UNCHANGED <<hvars, dvars, ivars, evars>>

InitNudge ==
  /\ target_os = "other"
  /\ arg = NewCall({}, "")
  /\ HotkeyStart
  /\ DaemonIdle
  /\ \E sized \in {DefaultState, size(DefaultState, Viewport)},
        drag \in {None, Some(Rect(1, 1, -1, -1))},
        selection \in {None} \cup {Some(r) : r \in StartRects} :
       /\ state = [sized EXCEPT !.selection = [drag |-> drag, selection |-> selection]]
       /\ initial = selection
  /\ spc = "direct"
  /\ input = NoInput
  /\ InProcessIdle
  /\ ExportIdle

NextNudge == HandleMove \/ SetMode \/ ArrowKeyPressed

SpecNudge == InitNudge /\ [][NextNudge]_vars

(***************************************************************************)
(* The in-process daemon: the device callbacks write the shared pressed    *)
(* buffer under its lock while the owner calls get_pressed and             *)
(* start_listening.  get_pressed takes the read lock for is_pressed and    *)
(* the write lock for clear_buffer; the callbacks can run in between.      *)
(***************************************************************************)
\* the on_key_down callback: pressed.push(key)
KeyDownCallback ==
  /\ \E key \in DaemonKeys \ keys_down :
       /\ keys_down' = keys_down \cup {key}
       /\ daemon' = [daemon EXCEPT !.pressed = Append(@, key)]
  /\ UNCHANGED <<gp, returned, trues, tick, sends>>
  /\ UNCHANGED <<hvars, dvars, svars, evars>>

\* the on_key_up callback: pressed.retain(|&k| k != key)
KeyUpCallback ==
  /\ \E key \in keys_down :
       /\ keys_down' = keys_down \ {key}
       /\ daemon' = [daemon EXCEPT !.pressed = retain_not(@, key)]
  /\ UNCHANGED <<gp, returned, trues, tick, sends>>
  /\ UNCHANGED <<hvars, dvars, svars, evars>>

\* Daemon::start_listening
StartListening ==
  /\ gp.pc = "idle"
  /\ daemon' = [daemon EXCEPT !.listening = TRUE]
  /\ trues' = 0
  /\ UNCHANGED <<keys_down, gp, returned, tick, sends>>
  /\ UNCHANGED <<hvars, dvars, svars, evars>>

\* Daemon::get_pressed, first line: let val = self.listening && self.is_pressed()
GetPressedEval ==
  /\ gp.pc = "idle"
  /\ gp' = [pc |-> "evaluated",
            val |-> daemon.listening /\ is_pressed(daemon),
            is_pressed |-> IF daemon.listening THEN Some(is_pressed(daemon)) ELSE None,
            read |-> IF daemon.listening THEN daemon.pressed ELSE <<>>]
  /\ UNCHANGED <<daemon, keys_down, returned, trues, tick, sends>>
  /\ UNCHANGED <<hvars, dvars, svars, evars>>

GetPressedReturn_stays_armed ==
  /\ gp.pc = "evaluated"
  /\ daemon' = IF gp.val THEN clear_buffer(daemon) ELSE daemon
  /\ returned' = Some(gp.val)
  /\ trues' = IF gp.val THEN trues + 1 ELSE trues
  /\ gp' = [gp EXCEPT !.pc = "idle"]
  /\ UNCHANGED <<keys_down, tick, sends>>
  /\ UNCHANGED <<hvars, dvars, svars, evars>>

\* Daemon::get_pressed, the rest: clear and disarm on true, return val
GetPressedReturn ==
  /\ gp.pc = "evaluated"
  /\ daemon' = IF gp.val THEN [clear_buffer(daemon) EXCEPT !.listening = FALSE] ELSE daemon
  /\ returned' = Some(gp.val)
  /\ trues' = IF gp.val THEN trues + 1 ELSE trues
  /\ gp' = [gp EXCEPT !.pc = "idle"]
  /\ UNCHANGED <<keys_down, tick, sends>>
  /\ UNCHANGED <<hvars, dvars, svars, evars>>

InitInProcess ==
  /\ target_os = "other"
  /\ arg = NewCall({}, "")
  /\ HotkeyStart
  /\ DaemonIdle
  /\ SelectionIdle
  /\ \E hotkey \in InProcessHotkeys : daemon = Daemon_start(hotkey)
  /\ keys_down = {}
  /\ gp = NoCall
  /\ returned = None
  /\ trues = 0
  /\ tick = "idle"
  /\ sends = 0
  /\ ExportIdle

NextInProcess ==
  KeyDownCallback \/ KeyUpCallback \/ StartListening \/ GetPressedEval \/ GetPressedReturn

SpecInProcess == InitInProcess /\ [][NextInProcess]_vars

(***************************************************************************)
(* The channel-fed daemon of src/app.rs: the device callbacks own the two  *)
(* senders of an mpsc channel and window_event drains its receiver with    *)
(* rx.iter(), whose next() is recv(): it yields a queued edge, waits while *)
(* the queue is empty and a sender is alive, and ends once every sender    *)
(* has been dropped.  The senders live in the callback guards, which are   *)
(* fields of the Daemon the drain is called on.                            *)
(***************************************************************************)
\* the keys whose edges the callbacks send
DrainKeys == {"LShift", "X"}

\* App::run: start_daemon.map(|hotkey| ...)
App_daemon(hotkey) ==
  [pressed |-> <<>>, rx |-> <<>>, senders |-> {"txa", "tx"}, hotkey |-> hotkey]

\* the on_key_down callback: txa.send(KeyAction { key, pressed: true })
SendKeyDown ==
  /\ sends < MaxEdges
  /\ \E key \in DrainKeys \ keys_down :
       /\ keys_down' = keys_down \cup {key}
       /\ daemon' = [daemon EXCEPT !.rx = Append(@, KeyAction(key, TRUE))]
  /\ sends' = sends + 1
  /\ UNCHANGED <<gp, returned, trues, tick>>
  /\ UNCHANGED <<hvars, dvars, svars, evars>>

\* the on_key_up callback: tx.send(KeyAction { key, pressed: false })
SendKeyUp ==
  /\ sends < MaxEdges
  /\ \E key \in keys_down :
       /\ keys_down' = keys_down \ {key}
       /\ daemon' = [daemon EXCEPT !.rx = Append(@, KeyAction(key, FALSE))]
  /\ sends' = sends + 1
  /\ UNCHANGED <<gp, returned, trues, tick>>
  /\ UNCHANGED <<hvars, dvars, svars, evars>>

\* window_event is called with a daemon present and enters daemon.clear_buffer()
WindowEventDelivered ==
  /\ tick = "idle"
  /\ tick' = "draining"
  /\ UNCHANGED <<daemon, keys_down, gp, returned, trues, sends>>
  /\ UNCHANGED <<hvars, dvars, svars, evars>>

\* the loop body of clear_buffer for one yielded action
apply_action(self, action) ==
  IF action.pressed
    THEN [self EXCEPT !.pressed = Append(@, action.key)]
    ELSE [self EXCEPT !.pressed = retain_not(@, action.key)]

\* the part of window_event that follows clear_buffer
after_clear_buffer(self) ==
  IF ~check(self.hotkey, self.pressed) THEN self ELSE [self EXCEPT !.pressed = <<>>]

\* one next() of self.rx.iter() in Daemon::clear_buffer, and what follows it:
\* a queued edge is applied; with the queue empty the loop ends, and
\* window_event goes on, only if no sender is left; otherwise recv() waits
clear_buffer_next ==
  /\ tick = "draining"
  /\ IF daemon.rx # <<>>
       THEN /\ daemon' = [apply_action(daemon, Head(daemon.rx)) EXCEPT !.rx = Tail(daemon.rx)]
            /\ tick' = tick
       ELSE /\ daemon.senders = {}
            /\ daemon' = after_clear_buffer(daemon)
            /\ tick' = "idle"
  /\ UNCHANGED <<keys_down, gp, returned, trues, sends>>
  /\ UNCHANGED <<hvars, dvars, svars, evars>>

InitDrain ==
  /\ target_os = "other"
  /\ arg = NewCall({}, "")
  /\ HotkeyStart
  /\ DaemonIdle
  /\ SelectionIdle
  /\ \E hotkey \in InProcessHotkeys : daemon = App_daemon(hotkey)
  /\ keys_down = {}
  /\ gp = NoCall
  /\ returned = None
  /\ trues = 0
  /\ tick = "idle"
  /\ sends = 0
  /\ ExportIdle

NextDrain == SendKeyDown \/ SendKeyUp \/ WindowEventDelivered \/ clear_buffer_next

SpecDrain == InitDrain /\ [][NextDrain]_vars

\* the thread inside window_event keeps running: an enabled step of the
\* drain is eventually taken; nothing obliges the user to touch a key
SpecDrainLive == SpecDrain /\ WF_vars(clear_buffer_next)

(***************************************************************************)
(* The callers of crop and export: main with App::new and App::run, whose  *)
(* region path exports without a session, and the Space arm of             *)
(* execute_key_command in the session.                                     *)
(***************************************************************************)
\* the export made by either caller from a cropped image
save(cropped, options, sinks) ==
  IF options # None /\ options[1].output_dir # None
    THEN save_selection(cropped, options, sinks)
    ELSE save_to_clipboard(cropped, sinks)

\* main: App::new(args) and app.run(); without a region the event loop starts
\* and resumed captures the frame
Main ==
  /\ app.pc = "off"
  /\ \E command \in {None} \cup {Some(line) : line \in CommandLines}, sinks \in Sinks :
       IF command = None
         THEN /\ app' = [pc |-> "session", args |-> None, current_image |-> Some(Frame)]
              /\ export' = export
       ELSE IF ~verify(command[1]).ok
         THEN /\ app' = [app EXCEPT !.pc = "returned Err"]
              /\ export' = export
       ELSE LET verified == verify(command[1]).verified
            IN  IF verified[1].region # None
                  THEN LET region == verified[1].region[1]
                           crop == crop_image(Frame, verified, region)
                       IN  IF crop.outcome = "panic"
                             THEN /\ app' = [app EXCEPT !.pc = "panicked", !.args = verified]
                                  /\ export' = [NoExport EXCEPT !.path = "region",
                                                  !.options = verified,
                                                  !.selection = Some(region),
                                                  !.crop = Some(crop)]
                             ELSE LET saved == save(crop.image[1], verified, sinks)
                                  IN  /\ app' = [app EXCEPT !.args = verified,
                                                   !.pc = IF saved.result = "Ok"
                                                            THEN "returned Ok"
                                                            ELSE "returned Err"]
                                      /\ export' = [path |-> "region",
                                                    options |-> verified,
                                                    selection |-> Some(region),
                                                    crop |-> Some(crop),
                                                    sinks |-> Some(sinks),
                                                    result |-> saved.result,
                                                    artifact |-> saved.artifact,
                                                    logged |-> saved.logged]
                  ELSE /\ app' = [pc |-> "session", args |-> verified,
                                  current_image |-> Some(Frame)]
                       /\ export' = export
  /\ UNCHANGED <<session, hvars, dvars, svars, ivars>>

\* execute_key_command, the arm (Pressed, Space); selection is what
\* self.state.selection.selection holds and stay_running what
\* args.stay_running() answers
SpacePressed ==
  /\ app.pc = "session"
  /\ IF app.current_image = None
       THEN /\ app' = app
            /\ export' = [NoExport EXCEPT !.path = "space", !.logged = TRUE]
       ELSE \E selection \in {None} \cup {Some(s) : s \in Selections},
               sinks \in Sinks, stay_running \in BOOLEAN :
              IF selection = None
                THEN /\ app' = [app EXCEPT !.current_image = None]
                     /\ export' = [NoExport EXCEPT !.path = "space", !.logged = TRUE]
              ELSE LET crop == crop_image(app.current_image[1], app.args, selection[1])
                   IN  IF crop.outcome = "panic"
                         THEN /\ app' = [app EXCEPT !.pc = "panicked",
                                           !.current_image = None]
                              /\ export' = [NoExport EXCEPT !.path = "space",
                                              !.options = app.args,
                                              !.selection = selection,
                                              !.crop = Some(crop)]
                         ELSE LET saved == save(crop.image[1], app.args, sinks)
                              IN  /\ app' = [app EXCEPT !.current_image = None,
                                               !.pc = IF stay_running THEN "session"
                                                      ELSE "exited"]
                                  /\ export' = [path |-> "space",
                                                options |-> app.args,
                                                selection |-> selection,
                                                crop |-> Some(crop),
                                                sinks |-> Some(sinks),
                                                result |-> saved.result,
                                                artifact |-> saved.artifact,
                                                logged |-> saved.logged
                                                           \/ saved.result = "Err"]
  /\ UNCHANGED <<session, hvars, dvars, svars, ivars>>

\* the options crop_image can be called with
VerifiedOptions ==
  {None} \cup {verify(line).verified : line \in {l \in CommandLines : verify(l).ok}}

\* crop_image called on the frame with any options and any selection
CropImage ==
  /\ app.pc = "off"
  /\ \E options \in VerifiedOptions, selection \in Selections :
       /\ app' = [app EXCEPT !.pc = "called", !.args = options]
       /\ export' = [NoExport EXCEPT !.path = "crop_image", !.options = options,
                       !.selection = Some(selection),
                       !.crop = Some(crop_image(Frame, options, selection))]
  /\ UNCHANGED <<session, hvars, dvars, svars, ivars>>

InitExport ==
  /\ target_os = "other"
  /\ arg = NewCall({}, "")
  /\ HotkeyStart
  /\ DaemonIdle
  /\ SelectionIdle
  /\ InProcessIdle
  /\ ExportIdle

NextExport == Main \/ SpacePressed \/ CropImage

SpecExport == InitExport /\ [][NextExport]_vars

(***************************************************************************)
(* The session: the event loop calls resumed and window_event; in daemon   *)
(* mode the global hotkey manager puts an event into the receiver when the *)
(* registered hotkey is pressed.                                           *)
(***************************************************************************)
TheApp == [app |-> app, session |-> session, state |-> state]

Resumed ==
  /\ spc = "windowed"
  /\ ~session.exited
  /\ ~session.context
  /\ app' = resumed(TheApp).app
  /\ session' = resumed(TheApp).session
  /\ state' = resumed(TheApp).state
  /\ UNCHANGED <<export, spc, input, initial>>
  /\ UNCHANGED <<hvars, dvars, ivars>>

\* the registered hotkey is pressed: GlobalHotKeyEvent::receiver() gets an event
HotkeyPressed ==
  /\ spc = "windowed"
  /\ ~session.exited
  /\ daemon_mode(TheApp)
  /\ session.receiver < MaxEdges
  /\ session' = [session EXCEPT !.receiver = @ + 1]
  /\ UNCHANGED <<app, export, svars>>
  /\ UNCHANGED <<hvars, dvars, ivars>>

WindowEventHandled ==
  /\ spc = "windowed"
  /\ session.context
  /\ ~session.exited
  /\ \E event \in SessionEvents :
       /\ app' = window_event(TheApp, event).app
       /\ session' = window_event(TheApp, event).session
       /\ state' = window_event(TheApp, event).state
       /\ input' = IF daemon_mode(TheApp) /\ app.current_image = None THEN input ELSE event
  /\ UNCHANGED <<export, spc, initial>>
  /\ UNCHANGED <<hvars, dvars, ivars>>

InitSession ==
  /\ target_os = "other"
  /\ arg = NewCall({}, "")
  /\ HotkeyStart
  /\ DaemonIdle
  /\ InProcessIdle
  /\ state = DefaultState
  /\ spc = "windowed"
  /\ input = NoInput
  /\ initial = None
  /\ \E options \in {None, Some([daemon_hotkey |-> None]),
                     Some([daemon_hotkey |-> Some("Shift+X")])} :
       app = [pc |-> "session", args |-> options, current_image |-> None]
  /\ export = NoExport
  /\ session = NoSession

NextSession == Resumed \/ HotkeyPressed \/ WindowEventHandled

SpecSession == InitSession /\ [][NextSession]_vars

\* the event loop keeps calling the handlers: resumed is called, and window
\* events that change anything are handled
SpecSessionLive == SpecSession /\ WF_vars(Resumed) /\ WF_vars(WindowEventHandled)

(***************************************************************************)
(* Properties of the hotkey grammar and of matching.                       *)
(***************************************************************************)
BaseFour == {SHIFT, CONTROL, ALT, SUPER}

\* the modifier alias table of the grammar, upper-cased
ModifierAliasNames ==
  {"ALT", "OPTION", "CONTROL", "CTRL", "COMMAND", "CMD", "SUPER", "SHIFT",
   "COMMANDORCONTROL", "COMMANDORCTRL", "CMDORCTRL", "CMDORCONTROL", "META"}

Range(s) == {s[i] : i \in 1..Len(s)}

IsBlank(token) == trim(token) = ""
IsModifierToken(token) == to_uppercase(trim(token)) \in ModifierAliasNames
IsKeyToken(token) ==
  /\ ~IsModifierToken(token)
  /\ to_uppercase(trim(token)) \in {p[1] : p \in KeyNames}

ArgTokens == split_plus(arg.text)
IsMultiToken == Len(ArgTokens) > 1
HasParsed == hpc = "parsed" /\ arg.op = "parse"

\* the tokens before position i are modifier aliases
ModifiersBefore(tokens, i) == \A j \in 1..(i - 1) : IsModifierToken(tokens[j])

\* token j was consumed as the main key
MainKeyAt(tokens, j) ==
  j \in 1..Len(tokens) /\ IsKeyToken(tokens[j]) /\ ModifiersBefore(tokens, j)

\* C1: a hotkey of a parsable key and of modifiers among Shift, Control, Alt
\* and Super, formatted by into_string and parsed again, is the same hotkey
C1_RoundTrip ==
  (hpc = "reparsed" /\ arg.mods \subseteq BaseFour) => reparsed[1] = parsed[1]

\* C4: in a multi-token string, a non-blank token that follows the token
\* consumed as the main key makes the parse fail with InvalidFormat carrying
\* the whole string
Ordering(tokens) ==
  \A j \in 1..(Len(tokens) - 1) :
    (MainKeyAt(tokens, j) /\ ~IsBlank(tokens[j + 1])) =>
      parsed[1] = Err("InvalidFormat", arg.text)

EmptyToken(tokens) ==
  \A i \in 1..Len(tokens) :
    (/\ IsBlank(tokens[i])
     /\ \/ ModifiersBefore(tokens, i)
        \/ MainKeyAt(tokens, i - 1)) =>
      parsed[1] = Err("EmptyToken", arg.text)

C5_EmptyToken == (HasParsed /\ IsMultiToken) => EmptyToken(ArgTokens)

C5_Witness ==
  /\ HasParsed
  /\ arg.text = "Ctrl+C+"
  /\ parsed[1] = Err("EmptyToken", "Ctrl+C+")

\* C6 as claimed: a string whose tokens are all modifier aliases, one token or
\* several, fails with InvalidFormat
OnlyModifiers(tokens) == \A i \in 1..Len(tokens) : IsModifierToken(tokens[i])

C6_NoMainKey ==
  (HasParsed /\ OnlyModifiers(ArgTokens)) => parsed[1].tag = "InvalidFormat"

\* C6 amended: a string of several tokens that are all modifier aliases fails
\* with InvalidFormat carrying the string; a single token that is a modifier
\* alias is taken as a key name and fails with UnsupportedKey carrying it
C6_NoMainKeyAmended ==
  (HasParsed /\ OnlyModifiers(ArgTokens)) =>
    parsed[1] = IF IsMultiToken
                  THEN Err("InvalidFormat", arg.text)
                  ELSE Err("UnsupportedKey", arg.text)

C6_Witness ==
  /\ HasParsed
  /\ arg.text = "Ctrl+Shift"
  /\ parsed[1] = Err("InvalidFormat", "Ctrl+Shift")

\* C7: two multi-token strings that differ only in letter case, in the
\* whitespace around tokens or in the alias of a modifier parse alike: both
\* fail in the same way or both give the same hotkey
C7_AliasEquivalence ==
  (HasParsed /\ IsMultiToken) =>
    /\ parsed[1].tag = parsedVariant[1].tag
    /\ parsed[1].hotkey = parsedVariant[1].hotkey

C7_Witness ==
  /\ HasParsed
  /\ target_os = "other"
  /\ arg.text = "CmdOrCtrl+K"
  /\ arg.variant = "Control+K"
  /\ parsed[1] = Ok([mods |-> {CONTROL}, key |-> "K"])
  /\ parsedVariant[1] = parsed[1]

\* C8: a hotkey built by parse_hotkey or HotKey::new never holds Meta: Meta in
\* the given modifiers has become Super
C8_MetaNormalized ==
  (hpc = "parsed" /\ parsed[1].tag = "Ok") =>
    LET hk == parsed[1].hotkey[1]
        given == IF arg.op = "new" THEN arg.mods
                 ELSE {META : t \in {u \in Range(ArgTokens) : to_uppercase(trim(u)) = "META"}}
    IN  /\ META \notin hk.mods
        /\ META \in given => SUPER \in hk.mods

\* C9: matches is true exactly when the key is the hotkey's key and the
\* modifiers restricted to Shift, Control, Alt and Super are the hotkey's
\* modifiers; flags outside these four never change the result
C9_MatchMasking ==
  hpc = "probed" =>
    LET hk == parsed[1].hotkey[1]
    IN  /\ matched[1] = (probe.key = hk.key /\ (probe.mods \cap BaseFour) = hk.mods)
        /\ \A extra \in SUBSET (ModifierFlags \ BaseFour) :
             matches(hk, probe.mods \cup extra, probe.key) = matched[1]

C9_Witness ==
  /\ hpc = "probed"
  /\ parsed[1].hotkey[1] = [mods |-> {SHIFT}, key |-> "K"]
  /\ probe = [mods |-> {SHIFT, META, CAPS_LOCK}, key |-> "K"]
  /\ matched[1] = TRUE

(***************************************************************************)
(* Properties of the daemon loop.                                          *)
(***************************************************************************)
IsModifierKey(key) == from_keycode(key) # None

\* the modifier flags pressed in a run of edges
ModsPressed(edges) ==
  UNION {from_keycode(edges[i].key)[1] :
           i \in {j \in 1..Len(edges) : edges[j].pressed /\ IsModifierKey(edges[j].key)}}

\* releases of modifier keys, if any, come before the modifier presses
ReleasesFirst(edges) ==
  \A i \in 1..Len(edges), j \in 1..Len(edges) :
    (i < j /\ IsModifierKey(edges[i].key) /\ IsModifierKey(edges[j].key)
           /\ edges[i].pressed) => edges[j].pressed

\* a press of the hotkey: since the start or the last hand-off the modifiers
\* of the hotkey, and no others, were pressed, and now its main key goes down
FullPress(edges, event) ==
  /\ event = KeyAction(args.hotkey.key, TRUE)
  /\ ReleasesFirst(edges)
  /\ ModsPressed(edges) = args.hotkey.mods

\* the loop consumes the main-key edge of a press of the hotkey
HotkeyPressStep ==
  /\ dpc = "loop"
  /\ rx # <<>>
  /\ rx' = Tail(rx)
  /\ FullPress(seen, Head(rx))

\* C2: in one-shot mode a press of the hotkey invokes the hand-off and ends
\* the loop, and the hand-off is never invoked a second time, whatever keys
\* stay held and whatever edges are still queued
C2_OneShot ==
  [][(~args.persist) =>
       /\ HotkeyPressStep => (handoffs' = handoffs + 1 /\ dpc' # "loop")
       /\ handoffs' # handoffs => (handoffs = 0 /\ handoffs' = 1 /\ dpc' # "loop")
       /\ dpc # "loop" => handoffs' = handoffs]_vars

C2_Witness ==
  /\ ~args.persist
  /\ args.hotkey.mods = {SHIFT}
  /\ handoffs = 1
  /\ dpc = "done"
  /\ {"LShift", "X"} \subseteq held
  /\ rx # <<>>

\* C3: in persistent mode every press of the hotkey invokes the hand-off, also
\* after earlier hand-offs, and a hand-off that returned Ok leaves the loop
\* running
C3_Rearm ==
  [][args.persist =>
       /\ HotkeyPressStep => handoffs' = handoffs + 1
       /\ (handoffs' # handoffs /\ status' = "Ok") => dpc' = "loop"]_vars

C3_Witness ==
  /\ args.persist
  /\ args.hotkey.mods = {SHIFT}
  /\ handoffs = 2
  /\ status = "Ok"
  /\ dpc = "loop"
  /\ held = {"LShift", "X"}

(***************************************************************************)
(* Properties of the selection lifecycle.                                  *)
(***************************************************************************)
Idle(self) == self.selection.drag = None /\ self.selection.selection = None
Dragging(self) == self.selection.drag # None /\ self.selection.selection = None
Committed(self) == self.selection.drag = None /\ self.selection.selection # None
Redragging(self) == self.selection.drag # None /\ self.selection.selection # None

\* C10: the selection state is always Idle, Dragging or Committed; drag and
\* selection are never both present
C10_Lifecycle == spc = "running" => ~Redragging(state)

\* C10, as the code has it: drag and selection are both present exactly
\* while a new drag runs over a committed selection.  That state is entered
\* only from Committed, by a primary press that anchors a zero-size drag at
\* the pointer; the committed selection stays as it is until the state is
\* left, to Committed with the new drag as the selection or to Idle
C10_LifecycleAmended ==
  [][/\ (~Redragging(state) /\ Redragging(state')) =>
          /\ Committed(state)
          /\ state'.selection.selection = state.selection.selection
          /\ state'.selection.drag =
               Some(Rect(state.mouse_position[1], state.mouse_position[2], 0, 0))
     /\ (Redragging(state) /\ Redragging(state')) =>
          state'.selection.selection = state.selection.selection
     /\ (Redragging(state) /\ ~Redragging(state')) =>
          \/ Idle(state')
          \/ Committed(state') /\ state'.selection.selection = state.selection.drag]_vars

C10_Witness ==
  /\ Redragging(state)
  /\ state.selection.drag[1].w # 0
  /\ state.selection.drag[1].h # 0
  /\ state.selection.selection[1].w # 0
  /\ state.selection.selection # state.selection.drag

PrimaryPress(ev) == ev.type = "MouseInput" /\ ev.state = "Pressed" /\ ev.button = "Left"
PrimaryRelease(ev) == ev.type = "MouseInput" /\ ev.state = "Released" /\ ev.button = "Left"
SecondaryPress(ev) == ev.type = "MouseInput" /\ ev.state = "Pressed" /\ ev.button = "Right"
PointerMove(ev) == ev.type = "CursorMoved"
KeyPress(ev, logical) ==
  ev.type = "KeyboardInput" /\ ev.state = "Pressed" /\ ev.logical_key = logical
KeyRelease(ev, logical) ==
  ev.type = "KeyboardInput" /\ ev.state = "Released" /\ ev.logical_key = logical

\* C11: a primary release while a drag is in progress makes the drag
\* rectangle the selection as it is, signs included, and leaves no drag
C11_DragCommit ==
  [][(PrimaryRelease(input') /\ Dragging(state)) =>
       state'.selection = [drag |-> None, selection |-> state.selection.drag]]_vars

\* press at (1,1), move to (0,0), release
C11_Witness ==
  /\ PrimaryRelease(input)
  /\ Committed(state)
  /\ state.selection.selection = Some(Rect(1, 1, -1, -1))

\* C12: a pointer move during a drag keeps the anchor and sets (w, h) to the
\* pointer position minus the anchor, unclamped; a primary press with no
\* drag in progress anchors a drag of zero size at the pointer
C12_DragTracks ==
  [][/\ (PointerMove(input') /\ state.selection.drag # None) =>
          LET drag == state.selection.drag[1]
          IN  state'.selection.drag =
                Some(Rect(drag.x, drag.y,
                          input'.position[1] - drag.x, input'.position[2] - drag.y))
     /\ (PrimaryPress(input') /\ state.selection.drag = None) =>
          state'.selection.drag =
            Some(Rect(state.mouse_position[1], state.mouse_position[2], 0, 0))]_vars

C12_Witness ==
  /\ PointerMove(input)
  /\ Dragging(state)
  /\ state.mouse_position = <<0, 0>>
  /\ state.selection.drag = Some(Rect(MaxCoord, 1, -MaxCoord, -1))

\* C13: a primary press during a drag whose delta is not zero leaves the drag
\* rectangle as it is, wherever the anchor lies
C13_DuplicatePress ==
  [][(/\ PrimaryPress(input')
      /\ state.selection.drag # None
      /\ (state.selection.drag[1].w # 0 \/ state.selection.drag[1].h # 0)) =>
       state'.selection.drag = state.selection.drag]_vars

\* C14: a secondary press ends in Idle, whatever the state before
C14_Cancel == [][SecondaryPress(input') => Idle(state')]_vars

C14_Witness ==
  /\ SecondaryPress(input)
  /\ Idle(state)
  /\ state.mouse_position = <<MaxCoord, 1>>

Nudgeable(self) == self.size # None /\ self.selection.selection # None

IsNudge(ev) == ev.type = "handle_move"
NudgeDir(ev) == ev.logical_key

StepX(dir) == IF dir = "Left" THEN -1 ELSE IF dir = "Right" THEN 1 ELSE 0
StepY(dir) == IF dir = "Up" THEN -1 ELSE IF dir = "Down" THEN 1 ELSE 0

\* the rectangle lies in the viewport
Within(r, viewport) ==
  /\ 0 <= r.x /\ r.x <= viewport[1]
  /\ 0 <= r.x + r.w /\ r.x + r.w <= viewport[1]
  /\ 0 <= r.y /\ r.y <= viewport[2]
  /\ 0 <= r.y + r.h /\ r.y + r.h <= viewport[2]

\* the step moves neither the anchor nor the far edge out of the viewport
Unclamped(r, dir, viewport) ==
  Within(Rect(r.x + StepX(dir), r.y + StepY(dir), r.w, r.h), viewport)

\* C15: a Move nudge that no clamp limits shifts x and y by the step and
\* leaves w and h as they are
C15_MoveTranslates ==
  [][(/\ IsNudge(input')
      /\ Nudgeable(state)
      /\ state.mode = "Move"
      /\ Unclamped(state.selection.selection[1], NudgeDir(input'), state.size[1])) =>
       LET sel == state.selection.selection[1]
       IN  state'.selection.selection =
             Some(Rect(sel.x + StepX(NudgeDir(input')), sel.y + StepY(NudgeDir(input')),
                       sel.w, sel.h))]_vars

\* C16: a selection that starts in the viewport is in the viewport after
\* every sequence of nudges and mode changes
C16_StaysWithin ==
  (/\ spc = "direct"
   /\ Nudgeable(state)
   /\ initial # None
   /\ Within(initial[1], state.size[1])) =>
    Within(state.selection.selection[1], state.size[1])

\* C17: a Right nudge in Resize mode leaves w as it is when x + w is the
\* viewport width
C17_ResizeAtEdge ==
  [][(/\ IsNudge(input')
      /\ NudgeDir(input') = "Right"
      /\ Nudgeable(state)
      /\ state.mode = "Resize"
      /\ state.selection.selection[1].x + state.selection.selection[1].w = state.size[1][1]) =>
       state'.selection.selection[1].w = state.selection.selection[1].w]_vars

\* C18: without a viewport or without a selection a nudge, called directly
\* or through an arrow key, changes nothing; no nudge changes the drag or
\* makes a selection where there was none
C18_NudgeNoOp ==
  [][(IsNudge(input') \/ input'.type = "KeyboardInput") =>
       /\ ~Nudgeable(state) => state' = state
       /\ state'.selection.drag = state.selection.drag
       /\ state.selection.selection = None => state'.selection.selection = None
       /\ state'.mode = state.mode]_vars

C18_Witness ==
  /\ IsNudge(input)
  /\ state.size = None
  /\ state.selection.drag # None
  /\ state.selection.selection = Some(Rect(1, 1, 1, 1))
  /\ state.mode = "Resize"

\* C19: the press of an arrow key applies one nudge
C19_UnitStep ==
  [][(/\ input'.type = "KeyboardInput"
      /\ input'.state = "Pressed"
      /\ input'.logical_key \in {"ArrowUp", "ArrowDown", "ArrowLeft", "ArrowRight"}
      /\ Nudgeable(state)) =>
       LET dir == IF input'.logical_key = "ArrowUp" THEN "Up"
                  ELSE IF input'.logical_key = "ArrowDown" THEN "Down"
                  ELSE IF input'.logical_key = "ArrowLeft" THEN "Left"
                  ELSE "Right"
       IN  state' = handle_move(state, dir)]_vars

(***************************************************************************)
(* Properties of the hand-off.                                             *)
(***************************************************************************)
\* the loop has just called run_cleave
HandOff == handoffs' = handoffs + 1

\* C26: a spawn that fails with NotFound is reported by an error of its own,
\* another spawn failure by a different one; either ends the loop with the
\* error, in both modes, and run_cleave is not called again
C26_HandOffFailure ==
  [][/\ (HandOff /\ cleave_status' = "NotFound") =>
          (status' = "Could not find cleave in PATH" /\ dpc' = "failed")
     /\ (HandOff /\ cleave_status' = "OtherIo") =>
          (status' = "Could not start cleave" /\ dpc' = "failed")
     /\ dpc = "failed" => (handoffs' = handoffs /\ dpc' = "failed")
     /\ handoffs' \in {handoffs, handoffs + 1}]_vars

C26_Witness ==
  /\ args.persist
  /\ cleave_status = "NotFound"
  /\ status = "Could not find cleave in PATH"
  /\ dpc = "failed"
  /\ handoffs = 2
  /\ rx # <<>>

\* C28: a hand-off that returned Ok leaves pressed and mods empty; a later
\* hand-off has seen, since then, a press edge for every modifier of the
\* hotkey
C28_ClearOnMatch ==
  [][/\ (HandOff /\ status' = "Ok") => (main_pressed' = {} /\ main_mods' = {})
     /\ (HandOff /\ handoffs >= 1) => args.hotkey.mods \subseteq ModsPressed(seen)]_vars

\* Shift stayed held over the hand-off; X was released and pressed again
C28_Witness ==
  /\ args.persist
  /\ args.hotkey.mods = {SHIFT}
  /\ handoffs = 1
  /\ status = "Ok"
  /\ held = {"LShift", "X"}
  /\ rx = <<>>
  /\ seen = <<KeyAction("X", FALSE), KeyAction("X", TRUE)>>

(***************************************************************************)
(* Properties of the in-process daemon                                     *)
(***************************************************************************)
GetPressedEvaluates == gp.pc = "idle" /\ gp'.pc = "evaluated"

GetPressedReturns == gp.pc = "evaluated" /\ gp'.pc = "idle"

\* C27: get_pressed returns true at most once between two start_listening
\* calls; a true return leaves the pressed buffer empty and the listening
\* flag cleared; with the flag cleared get_pressed returns false and leaves
\* the daemon, its pressed buffer included, as it was.
C27_ArmedFlag ==
  [][/\ trues' <= 1
     /\ (GetPressedReturns /\ returned' = Some(TRUE)) =>
          (daemon'.pressed = <<>> /\ ~daemon'.listening)
     /\ (GetPressedEvaluates /\ ~daemon.listening) => ~gp'.val
     /\ (GetPressedReturns /\ ~daemon.listening) =>
          (returned' = Some(FALSE) /\ daemon' = daemon)]_vars

C27_Witness ==
  /\ trues = 1
  /\ ~daemon.listening
  /\ is_pressed(daemon)
  /\ gp = NoCall
  /\ returned = Some(FALSE)

\* the modifier flags of the modifier keys among codes
HeldModifiers(codes) ==
  {flag \in {SHIFT, CONTROL, ALT, SUPER} :
     \E i \in 1..Len(codes) :
       \/ flag = SHIFT /\ codes[i] \in {"LShift", "RShift"}
       \/ flag = CONTROL /\ codes[i] \in {"LControl", "RControl"}
       \/ flag = ALT /\ codes[i] \in {"LAlt", "RAlt"}
       \/ flag = SUPER /\ codes[i] \in {"LMeta", "RMeta"}}

\* the positions of the non-modifier keys among codes
MainKeyPositions(codes) ==
  {i \in 1..Len(codes) :
     codes[i] \notin {"LShift", "RShift", "LControl", "RControl",
                      "LAlt", "RAlt", "LMeta", "RMeta"}}

\* the verdict of the fold, stated without the loop
LastWins(self, codes) ==
  /\ MainKeyPositions(codes) # {}
  /\ LET last == CHOOSE i \in MainKeyPositions(codes) :
                   \A j \in MainKeyPositions(codes) : j <= i
     IN  /\ self.mods = HeldModifiers(codes)
         /\ self.key = keycode_to_code(codes[last])

\* C29: check over the pressed keys is false when no non-modifier key is
\* among them, and otherwise compares the union of the held modifiers and
\* the last non-modifier key in iteration order with the hotkey.
C29_KeyStateFold ==
  gp.is_pressed # None => (gp.is_pressed[1] <=> LastWins(daemon.hotkey, gp.read))

\* two non-modifier keys held: the verdict for the same set differs by order
C29_Witness ==
  /\ gp.read = <<"A", "X">>
  /\ gp.is_pressed = Some(TRUE)
  /\ ~check(daemon.hotkey, <<"X", "A">>)

(***************************************************************************)
(* Properties of the channel-fed daemon of src/app.rs                      *)
(***************************************************************************)
\* C30: a drain that has started returns: window_event gets past
\* clear_buffer once the edges pending in the channel are applied, with the
\* senders still registered.
C30_DrainTerminates == (tick = "draining") ~> (tick = "idle")

(***************************************************************************)
(* Properties of crop and export                                           *)
(***************************************************************************)
\* the rectangle the crop is to be made of: the region of the options when
\* there is one, the selection passed otherwise
Given ==
  IF export.options # None /\ export.options[1].region # None
    THEN export.options[1].region[1]
    ELSE export.selection[1]

\* n is the least whole number not below v tenths
IsCeil(n, v) == n * 10 >= v /\ (n - 1) * 10 < v

\* n is the greatest whole number not above v tenths
IsFloor(n, v) == n * 10 <= v /\ (n + 1) * 10 > v

\* rect is the rounding of r: origin up, extent down; a pixel count cannot be
\* negative, so a negative value gives 0
RoundedInward(rect, r) ==
  /\ IF r.x >= 0 THEN IsCeil(rect.x, r.x) ELSE rect.x = 0
  /\ IF r.y >= 0 THEN IsCeil(rect.y, r.y) ELSE rect.y = 0
  /\ IF r.w >= 0 THEN IsFloor(rect.w, r.w) ELSE rect.w = 0
  /\ IF r.h >= 0 THEN IsFloor(rect.h, r.h) ELSE rect.h = 0

\* C21: the rectangle handed to the slicing has origin ceil(x), ceil(y) and
\* extent floor(w), floor(h) of the rectangle cropped.
C21_CropRounding == export.crop # None => RoundedInward(export.crop[1].rect, Given)

C21_Witness ==
  /\ export.path = "space"
  /\ export.selection = Some(Rect(104, 106, 197, 192))
  /\ export.crop # None
  /\ export.crop[1].rect = Rect(11, 11, 19, 19)

\* C22: the area sliced for a crop lies within the frame.
C22_InsideFrame ==
  export.crop # None =>
    /\ export.crop[1].rect.x + export.crop[1].rect.w <= Frame.width
    /\ export.crop[1].rect.y + export.crop[1].rect.h <= Frame.height

\* C23: with a region in the options the crop is made of the region, whatever
\* selection is passed; without one it is made of the selection.
C23_RegionPrecedence ==
  export.crop # None =>
    IF export.options # None /\ export.options[1].region # None
      THEN RoundedInward(export.crop[1].rect, export.options[1].region[1])
      ELSE RoundedInward(export.crop[1].rect, export.selection[1])

C23_Witness ==
  /\ export.path = "crop_image"
  /\ export.options # None
  /\ export.options[1].region = Some(Rect(104, 106, 197, 192))
  /\ export.selection = Some(Rect(0, 4, 104, 102))
  /\ export.crop # None
  /\ export.crop[1].rect = Rect(11, 11, 19, 19)

\* the image an export with these options is to produce from the crop
Scaled(image, options) ==
  IF options # None /\ options[1].scale # None
    THEN [width |-> (image.width * options[1].scale[1] + 5) \div 10,
          height |-> (image.height * options[1].scale[1] + 5) \div 10,
          resampled |-> IF options[1].filter # None THEN options[1].filter
                        ELSE Some("Nearest")]
    ELSE image

\* C24: the artifact produced, file or clipboard image, is the crop resized
\* by the scale factor with the chosen filter or nearest-neighbour, and the
\* crop itself when no scale factor is given.
C24_ScaleApplies ==
  export.artifact # None =>
    export.artifact[1].image = Scaled(export.crop[1].image[1], export.options)

\* the export went to the file sink and the write failed
FileWriteFailed ==
  /\ export.sinks # None
  /\ export.options # None /\ export.options[1].output_dir # None
  /\ export.sinks[1].write = "Err"

\* the export went to the clipboard and the clipboard failed
ClipboardFailed ==
  /\ export.sinks # None
  /\ export.options = None \/ export.options[1].output_dir = None
  /\ export.sinks[1].clipboard_new = "Err" \/ export.sinks[1].set_image = "Err"

\* C25: a failed clipboard export ends as a successful one does, run
\* returning Ok or the session going on or exiting; a failed file write
\* ends with an error, on the region path and on the Space path.
C25_ErrorPolicy ==
  /\ ClipboardFailed => app.pc \in {"returned Ok", "session", "exited"}
  /\ FileWriteFailed => app.pc \notin {"returned Ok", "session", "exited"}

(***************************************************************************)
(* Further properties of the selection state                               *)
(***************************************************************************)
\* C40: a primary release that arrives while no drag is in progress leaves
\* drag and selection as they were; a committed selection is kept.
C40_StrayRelease ==
  [][(PrimaryRelease(input') /\ state.selection.drag = None) =>
       state'.selection = state.selection]_vars

(***************************************************************************)
(* Further properties of the daemon loop                                   *)
(***************************************************************************)
\* C36: the outcome of a hand-off does not depend on how the capture process
\* ends: once the process has been created the hand-off is a success,
\* whatever its exit status.
C36_CreationOnly ==
  [][(HandOff /\ cleave_status' \in {"success", "failure"}) => status' = "Ok"]_vars

\* the flags of the modifier keys among keys
FlagsOf(keys) == UNION {from_keycode(key)[1] : key \in {k \in keys : IsModifierKey(k)}}

\* C37: the accumulated modifier mask is the union of the flags of the
\* modifier keys in the pressed set.
C37_MaskAgrees == main_mods = FlagsOf(main_pressed)

\* the edge at the head of the channel is taken by this step
EdgeProcessed == dpc = "loop" /\ rx # <<>> /\ rx' = Tail(rx)

\* C38: the hand-off is invoked exactly while a press edge of the main key of
\* the hotkey is processed with the accumulated modifiers equal to those of
\* the hotkey: never on a release edge, never on the edge of a modifier, and
\* whatever other keys are held.
C38_EdgeTriggered ==
  [][/\ HandOff =>
          /\ EdgeProcessed
          /\ Head(rx).pressed
          /\ Head(rx).key = args.hotkey.key
          /\ main_mods = args.hotkey.mods
     /\ (/\ EdgeProcessed
         /\ Head(rx).pressed
         /\ Head(rx).key = args.hotkey.key
         /\ main_mods = args.hotkey.mods) => HandOff]_vars

\* hotkey X, one-shot: A went down and was processed before X, and X matched
C38_Witness ==
  /\ ~args.persist
  /\ args.hotkey.mods = {}
  /\ dpc = "done"
  /\ status = "Ok"
  /\ held = {"A", "X"}
  /\ sent = 2
  /\ rx = <<>>

(***************************************************************************)
(* Further properties of the nudges                                        *)
(***************************************************************************)
\* C39: a nudge to the left or to the right leaves y and h of the selection
\* as they were, and a nudge up or down leaves x and w, in every mode and
\* for selections with negative extents too.
C39_AxisOnly ==
  [][(IsNudge(input') /\ Nudgeable(state)) =>
       LET before == state.selection.selection[1]
           after == state'.selection.selection[1]
       IN  /\ NudgeDir(input') \in {"Left", "Right"} =>
                (after.y = before.y /\ after.h = before.h)
           /\ NudgeDir(input') \in {"Up", "Down"} =>
                (after.x = before.x /\ after.w = before.w)]_vars

(***************************************************************************)
(* Further properties of the in-process daemon                             *)
(***************************************************************************)
\* C34: the buffer that get_pressed clears holds only key presses that its
\* evaluation has read: no press pushed by the key-down callback between the
\* evaluation and the clear is discarded unseen.
C34_EvaluateAndClear ==
  [][(GetPressedReturns /\ gp.val) =>
       \A i \in 1..Len(daemon.pressed) : daemon.pressed[i] \in Range(gp.read)]_vars

(***************************************************************************)
(* Further properties of crop and export                                   *)
(***************************************************************************)
\* Space is handled in the session and no crop is made of it, for want of a
\* selection or because the crop fails
SpaceWithoutCrop ==
  /\ app.pc = "session"
  /\ app' # app
  /\ export'.path = "space"
  /\ export'.crop = None \/ export'.crop[1].outcome # "Ok"

\* C32: a Space press that exports nothing, no selection being committed or
\* the crop failing, leaves the captured frame in place.
C32_FrameKept == [][SpaceWithoutCrop => app'.current_image = app.current_image]_vars

\* the rectangle in min-corner form with non-negative extents
Normalized(r) ==
  [x |-> IF r.w < 0 THEN r.x + r.w ELSE r.x,
   y |-> IF r.h < 0 THEN r.y + r.h ELSE r.y,
   w |-> IF r.w < 0 THEN -r.w ELSE r.w,
   h |-> IF r.h < 0 THEN -r.h ELSE r.h]

\* C33: the region cropped for a selection is the one cropped for its
\* normalized form, so a negative w or h selects the same pixels as the drag
\* between the same corners in the other direction.
C33_NormalizedCrop ==
  (export.path = "space" /\ export.crop # None) =>
    RoundedInward(export.crop[1].rect, Normalized(export.selection[1]))

(***************************************************************************)
(* Properties of the session                                               *)
(***************************************************************************)
\* C31: in daemon mode, once the hotkey event has been received the session
\* comes to hold a captured frame, after which window_event passes the
\* pointer and keyboard input on.
C31_HandOffToSession == session.received ~> (app.current_image # None)

\* C35: once a frame has been captured the selection state holds the
\* viewport dimensions.
C35_ViewportSupplied == (spc = "windowed" /\ app.current_image # None) => state.size # None

====
